---- MODULE Spec2Model ----
(***************************************************************************)
(* remdiff: the SFTP client connection (src/sftp.cc, src/sftp.h) and the   *)
(* pipelined read pump (src/compare.cc, Comparison::feed_file).            *)
(*                                                                         *)
(* Threads are numbered: 0 is the connection's poll thread, 1..NCallers    *)
(* are threads calling begin_read/finish_read on the connection,           *)
(* NCallers+1 is a thread calling disconnect(), NCallers+2 is a thread     *)
(* running feed_file.  A critical section that holds Connection::lock from *)
(* its first to its last statement and does not block inside is one        *)
(* action; std::condition_variable::wait releases the lock and parks the   *)
(* thread in cv until a notify_all empties cv.                             *)
(*                                                                         *)
(* A packet body is the four big-endian bytes of the request ID followed   *)
(* by the remaining fields of the packet, one element per field.  File     *)
(* data is represented by the file range it holds (offset, length): byte i *)
(* of the file is the value i, so a range determines its bytes.            *)
(***************************************************************************)
EXTENDS Integers, Sequences, FiniteSets, TLC

\* ---------------------------------------------------------------- bounds

\* Threads using the connection concurrently.
NCallers == 2
\* Requests the caller threads issue in all.
MaxReqs == 3
\* Largest file served to the read pump, in whole chunks (plus a tail).
MaxFileChunks == 5

\* Bytes of a file beyond its last whole chunk
TailBytes == 10

\* Short DATA replies the server gives in a run
MaxShort == 1

\* Longest path a caller passes, in characters
MaxPathLen == 2

\* The character of paths that is not the slash
PathLetter == 97
MaxConnects == 2
MaxBurst == 2
MaxSends == 2
LongLen == 256
NHosts == 2
MaxPacks == 2
InputSize == 2
StreamLen == 4
MaxRecv == 3

\* ------------------------------------------------------ program constants

\* uint32_t: a 32-bit value is kept as its two 16-bit halves <<high, low>>,
\* each below HalfWord, so that nextid++ wraps modulo 2^32.
HalfWord == 65536
\* size_t chunk = 4096 in feed_file.
chunk == 4096
\* size_t inflight_limit = 4 in feed_file.
inflight_limit == 4
SSH_FX_OK == 0
SSH_FX_EOF == 1
SSH_FX_FAILURE == 4
\* '/' in open's test of the first character.
Slash == 47
SSH_FXF_READ == 1
InitVersion == 3
Byte == 256
SSH_FILEXFER_ATTR_SIZE == 1
SSH_FILEXFER_ATTR_UIDGID == 2
SSH_FILEXFER_ATTR_PERMISSIONS == 4
SSH_FILEXFER_ACMODTIME == 8

SSH_FXP_CLOSE == "SSH_FXP_CLOSE"
SSH_FXP_READ == "SSH_FXP_READ"
SSH_FXP_STATUS == "SSH_FXP_STATUS"
SSH_FXP_DATA == "SSH_FXP_DATA"
SSH_FXP_HANDLE == "SSH_FXP_HANDLE"
SSH_FXP_INIT == "SSH_FXP_INIT"
SSH_FXP_VERSION == "SSH_FXP_VERSION"
SSH_FXP_OPEN == "SSH_FXP_OPEN"
SSH_FXP_STAT == "SSH_FXP_STAT"
SSH_FXP_LSTAT == "SSH_FXP_LSTAT"
SSH_FXP_FSTAT == "SSH_FXP_FSTAT"
SSH_FXP_REALPATH == "SSH_FXP_REALPATH"
SSH_FXP_READDIR == "SSH_FXP_READDIR"
SSH_FXP_ATTRS == "SSH_FXP_ATTRS"
SSH_FXP_NAME == "SSH_FXP_NAME"

\* ---------------------------------------------------------------- threads

PollerT == 0
Callers == 1 .. NCallers
DiscT == NCallers + 1
PumpT == NCallers + 2
Threads == 0 .. (NCallers + 2)

VARIABLES
  pc,          \* thread -> where it is in its code
  nextid,      \* Connection::nextid
  waiting,     \* Connection::waiting, the IDs outstanding
  replies,     \* Connection::replies, ID -> [type, body]
  poll_quit,   \* Connection::poll_quit
  cv,          \* threads parked in cond.wait
  joinable,    \* poller.joinable()
  fds_open,    \* rfd >= 0 and wfd >= 0
  pid_live,    \* pid >= 0
  terminated,  \* "no", or the thread whose uncaught exception ended the process
  pbuf,        \* poll()'s locals type, buffer, id
  myid,        \* thread -> the ID it is sending or awaiting
  got,         \* thread -> what await_reply gave it: [type, body]
  nreq,        \* requests the caller threads have begun
  srv_pending, \* request frames the server has received and not answered
  pipe,        \* frames written by the server, not yet read (rfd)
  srv_alive,   \* the child process is running and holds its pipe ends
  fsize,       \* length of the remote file
  file_ok,     \* the server can read the remote file
  eof_replies, \* STATUS EOF replies the server has sent so far
  short_replies, \* DATA replies shorter than they could have been, so far
  offset,      \* feed_file: offset
  ids,         \* feed_file: ids
  result,      \* feed_file: result
  sink,        \* what feed_file has written to fd, as file ranges
  reader_open, \* the read end of feed_file's pipe is open
  fd_closes,   \* times feed_file has closed fd
  close_sent,  \* CLOSE requests sent for the handle
  pump_exit,   \* how feed_file left its main loop
  home,        \* Connection::home, the path realpath("") returned
  api,         \* the API call thread 1 is making or made last, and its outcome
  connects,    \* connect() calls that went past the rfd >= 0 test
  input,       \* Connection::input: frames read from rfd and not yet consumed
  srv_first,   \* the first frame the present child has written, if any
  packet,      \* send: per thread, the type byte and body of the packet in hand
  cmd,         \* send: per thread, the string s holding the packet's bytes
  written,     \* writeall: per thread, the bytes of s written so far
  lock,        \* Connection::lock as send takes it: the holder, or 0
  wire,        \* bytes written to wfd that the other end has not parsed yet
  wire_all,    \* every byte written to wfd, in order
  sent,        \* the packets in the order send's critical sections began
  received,    \* the frames the other end has parsed, in order
  hobj,        \* a FileHandle or DirectoryHandle: connection and handle
  minted,      \* the handle strings the server has minted
  close_reqs,  \* the handle strings sent in CLOSE by Handle::close, in order
  static_lock, \* Connection::static_lock: the holder, or 0
  conns,       \* Connection::conns: host name to Connection object
  objects,     \* the Connection objects made by connection(), in order
  lookup,      \* per thread, its connection(host) call: host, conn, outcome
  same,        \* the local file has the remote file's content
  rc,          \* main: the value it is about to return
  exit_status, \* the exit status of the process, once main has returned
  rcv,         \* recv: bytes left in the pipe, input, input_total, input_ptr, bytes delivered
  codec,       \* a string being packed and unpacked, its cursor, the last value
  addfile      \* add_file on the remote file: newname, OPENs sent, file missing, flag set

connvars == <<nextid, waiting, replies, poll_quit, cv, joinable, fds_open, pid_live>>
callvars == <<myid, got, nreq>>
srvvars == <<srv_pending, pipe, srv_alive, fsize, file_ok, eof_replies, short_replies>>
pumpvars == <<offset, ids, result, sink, reader_open, fd_closes, close_sent, pump_exit>>
apivars == <<home, api, connects, input, srv_first>>
wirevars == <<packet, cmd, written, lock, wire, wire_all, sent, received>>
handlevars == <<hobj, minted, close_reqs>>
regvars == <<static_lock, conns, objects, lookup>>
mainvars == <<same, rc, exit_status, addfile>>
morevars == <<codec, rcv>>
notwire == <<handlevars, regvars, mainvars, morevars>>
nothandle == <<wirevars, regvars, mainvars, morevars>>
notreg == <<wirevars, handlevars, mainvars, morevars>>
notmain == <<wirevars, handlevars, regvars, morevars>>
notcodec == <<wirevars, handlevars, regvars, mainvars, rcv>>
notrecv == <<wirevars, handlevars, regvars, mainvars, codec>>
progvars == <<wirevars, handlevars, regvars, mainvars, morevars>>
vars == <<pc, terminated, pbuf, connvars, callvars, srvvars, pumpvars, apivars, progvars>>

\* ------------------------------------------------------------------ codec

\* uint32_t n; n++.
Inc32(n) ==
  IF n[2] = HalfWord - 1
  THEN << (n[1] + 1) % HalfWord, 0 >>
  ELSE << n[1], n[2] + 1 >>

Zero32 == <<0, 0>>
One32 == <<0, 1>>
Max32 == <<HalfWord - 1, HalfWord - 1>>

\* pack32: the four bytes of n, most significant first.
Pack32(n) ==
  << n[1] \div 256, n[1] % 256, n[2] \div 256, n[2] % 256 >>

\* unpack32 reading the four bytes least significant first.
Unpack32Reversed(s, pos) ==
  << s[pos + 4] * 256 + s[pos + 3], s[pos + 2] * 256 + s[pos + 1] >>

\* unpack32 at byte position pos (counted from 0): fails when fewer than
\* four bytes remain.
Unpack32Ok(s, pos) == Len(s) - pos >= 4

Unpack32(s, pos) ==
  << s[pos + 1] * 256 + s[pos + 2], s[pos + 3] * 256 + s[pos + 4] >>

\* packstr: the length, then the bytes.  A string is a sequence of character
\* codes; the length word stands as one element.
PackStr(str) == <<Len(str)>> \o str

\* unpackstr at position pos: fails when the length word is missing or names
\* more bytes than remain.
UnpackStrOk(s, pos) == Len(s) - pos >= 1 /\ s[pos + 1] <= Len(s) - pos - 1

UnpackStr(s, pos) == SubSeq(s, pos + 2, pos + 1 + s[pos + 1])


\* --------------------------------------------------------------- packets

Min(a, b) == IF a < b THEN a ELSE b

\* begin_read's packet: newpacket(SSH_FXP_READ), pack32(id), the handle (one
\* file is open, so it is left out), pack64(offset), pack32(len).
ReadRequest(id, off, len) ==
  [type |-> SSH_FXP_READ, body |-> Pack32(id) \o <<off, len>>]

\* close's packet: newpacket(SSH_FXP_CLOSE), pack32(id), the handle.
CloseRequest(id) ==
  [type |-> SSH_FXP_CLOSE, body |-> Pack32(id)]

\* A frame on the read pipe: uint32 length (type byte plus body), type, body.
Frame(type, body) == [len |-> 1 + Len(body), type |-> type, body |-> body]

\* The message text the server puts in its STATUS replies.
ServerText == <<PathLetter>>

\* A STATUS reply: the ID, the status code, the message.
StatusFrame(idb, code, text) ==
  Frame(SSH_FXP_STATUS, idb \o <<code>> \o PackStr(text))

\* What an SFTP version 3 server answers to a request: the reply carries the
\* request's ID bytes.  READ at or past end of file is STATUS EOF, otherwise
\* DATA with the bytes that exist in [off, off + len).
ServerAnswer(req) ==
  LET idb == SubSeq(req.body, 1, 4) IN
  IF req.type = SSH_FXP_READ
  THEN LET off == req.body[5]
           len == req.body[6] IN
       IF ~file_ok
       THEN StatusFrame(idb, SSH_FX_FAILURE, ServerText)
       ELSE IF off >= fsize
       THEN StatusFrame(idb, SSH_FX_EOF, ServerText)
       ELSE Frame(SSH_FXP_DATA, idb \o <<off, Min(len, fsize - off)>>)
  ELSE IF req.type = SSH_FXP_OPEN
  THEN Frame(SSH_FXP_HANDLE, idb \o PackStr(<<PathLetter, PathLetter>>))
  ELSE IF req.type \in {SSH_FXP_STAT, SSH_FXP_LSTAT, SSH_FXP_FSTAT}
  THEN Frame(SSH_FXP_ATTRS, idb \o <<0>>)
  ELSE IF req.type = SSH_FXP_REALPATH
  THEN Frame(SSH_FXP_NAME, idb \o <<1>> \o PackStr(<<Slash, PathLetter>>))
  ELSE IF req.type = SSH_FXP_READDIR
  THEN Frame(SSH_FXP_NAME, idb \o <<0>>)
  ELSE StatusFrame(idb, SSH_FX_OK, ServerText)

\* The frame is a STATUS reply carrying SSH_FX_EOF.
IsEofFrame(f) ==
  f.type = SSH_FXP_STATUS /\ Len(f.body) >= 5 /\ f.body[5] = SSH_FX_EOF

\* A server-side failure of the request.
ServerFailure(req) ==
  StatusFrame(SubSeq(req.body, 1, 4), SSH_FX_FAILURE, ServerText)

\* Frames recv_reply or poll's unpack32 reject: a zero length word, and a
\* body shorter than the request ID.
ZeroLengthFrame == [len |-> 0, type |-> SSH_FXP_STATUS, body |-> <<>>]
ShortBodyFrame == [len |-> 3, type |-> SSH_FXP_STATUS, body |-> <<0, 0>>]

\* --------------------------------------------------------------- registry

NoReply == [type |-> "", body |-> <<>>]
NoFrame == [len |-> 0, type |-> "", body |-> <<>>]
NoPacket == [type |-> 0, body |-> <<>>]
NoResult == [err |-> FALSE, off |-> 0, len |-> 0]
NoBuffer == [type |-> "", body |-> <<>>, id |-> Zero32]

Running == terminated = "no"

Goto(t, l) == pc' = [pc EXCEPT ![t] = l]

\* newid without its loop: the counter's value is used as it is.
SkipNothing(n) == n

\* newid lines 262-264: skip IDs that are in use.
RECURSIVE SkipInUse(_)
SkipInUse(n) ==
  IF n \in DOMAIN replies \/ n \in waiting
  THEN SkipInUse(Inc32(n))
  ELSE n

\* poll holding the mutex from the top of its loop body to the stash, the
\* frame read included.
PollLockedReading == {"read"}

\* poll lines 296-309 and 319-325: the mutex is held inside the two braced
\* blocks only (cond.wait gives it up while parked); recv_reply and unpack32
\* at lines 313-315 run between them, so at no location where the poll thread
\* rests does it hold the mutex.
PollLocked == {}

\* lock_guard / unique_lock on Connection::lock in newid, send and
\* await_reply: the caller gets the mutex when the poll thread does not hold
\* it.
MutexFree == pc[PollerT] \notin PollLocked

\* newid: the whole function runs under the lock.
NewId(t) ==
  LET id == SkipInUse(nextid) IN
  /\ MutexFree
  /\ nextid' = Inc32(id)
  /\ waiting' = waiting \cup {id}
  /\ myid' = [myid EXCEPT ![t] = id]

\* send: writeall(wfd, ...) succeeds while our write end is open and the
\* child holds the other end.
CanWrite == fds_open /\ srv_alive

\* send without line 177: nobody is woken.
SendNoNotify == cv

\* send after a successful write: the server has the frame, and
\* cond.notify_all() wakes every parked thread.
SendNotify == {}

SendFrame(frame) ==
  /\ MutexFree
  /\ CanWrite
  /\ srv_pending' = srv_pending \cup {frame}
  /\ cv' = SendNotify

\* await_reply taking whichever reply is stashed, not the one for id.
FindAnyReply(id) ==
  IF DOMAIN replies # {} THEN {CHOOSE k \in DOMAIN replies : TRUE} ELSE {}

\* await_reply line 277: replies.find(id).
FindReply(id) == IF id \in DOMAIN replies THEN {id} ELSE {}

\* await_reply, one turn of its loop, for thread t at location here: take the
\* stashed reply and go to there, or cond.wait.
AwaitReply(t, there) ==
  /\ MutexFree
  /\ t \notin cv
  /\ LET found == FindReply(myid[t]) IN
     IF found # {}
     THEN LET k == CHOOSE k \in found : TRUE IN
          /\ got' = [got EXCEPT ![t] = replies[k]]
          /\ replies' = [i \in DOMAIN replies \ {k} |-> replies[i]]
          /\ Goto(t, there)
          /\ cv' = cv
     ELSE /\ cv' = cv \cup {t}
          /\ UNCHANGED <<got, replies, pc>>

\* finish_read throwing on STATUS EOF as on any other status.
FinishReadEofThrows(type, body) ==
  IF type = SSH_FXP_DATA
  THEN [err |-> FALSE, off |-> body[5], len |-> body[6]]
  ELSE [err |-> TRUE, off |-> 0, len |-> 0]

\* finish_read lines 538-547: DATA gives the data, STATUS EOF gives the empty
\* string, everything else throws.
FinishRead(type, body) ==
  IF type = SSH_FXP_DATA
  THEN [err |-> FALSE, off |-> body[5], len |-> body[6]]
  ELSE IF type = SSH_FXP_STATUS /\ body[5] = SSH_FX_EOF
  THEN [err |-> FALSE, off |-> 0, len |-> 0]
  ELSE [err |-> TRUE, off |-> 0, len |-> 0]

\* ------------------------------------------------------------- API calls

\* The calls thread 1 makes in the API model.
PathOps == {"open", "opendir", "stat", "lstat", "realpath"}
HandleOps == {"fstat", "readdir", "close"}
ApiOps == PathOps \cup HandleOps \cup {"read"}

\* open sending the caller's path as it is.
FullPathVerbatim(h, path) == path

\* open lines 379-380: fullpath.
FullPath(h, path) ==
  IF Len(path) > 0 /\ path[1] = Slash THEN path ELSE h \o <<Slash>> \o path

\* gstat line 477 and realpath line 498: the path is packed as given; open
\* and opendir (lines 425-426) pack fullpath.
SentPath(op, h, path) ==
  IF op \in {"open", "opendir"} THEN FullPath(h, path) ELSE path

\* The packet type each call sends.
RequestType(op) ==
  CASE op = "open" -> SSH_FXP_OPEN
    [] op = "opendir" -> SSH_FXP_OPEN
    [] op = "stat" -> SSH_FXP_STAT
    [] op = "lstat" -> SSH_FXP_LSTAT
    [] op = "fstat" -> SSH_FXP_FSTAT
    [] op = "realpath" -> SSH_FXP_REALPATH
    [] op = "readdir" -> SSH_FXP_READDIR
    [] op = "close" -> SSH_FXP_CLOSE
    [] OTHER -> SSH_FXP_READ

\* The packet a call sends: type, ID, then path or handle, for open the mode
\* and a zero word, for opendir a zero flags word.
ApiRequest(op, id, h, arg, off) ==
  IF op = "read" THEN ReadRequest(id, off, chunk)
  ELSE IF op = "close" THEN CloseRequest(id)
  ELSE IF op = "open"
  THEN [type |-> SSH_FXP_OPEN,
        body |-> Pack32(id) \o PackStr(SentPath(op, h, arg)) \o <<SSH_FXF_READ, 0>>]
  ELSE IF op = "opendir"
  THEN [type |-> RequestType(op),
        body |-> Pack32(id) \o PackStr(SentPath(op, h, arg)) \o <<0>>]
  ELSE [type |-> RequestType(op),
        body |-> Pack32(id) \o PackStr(SentPath(op, h, arg))]

\* How a call ends: it returns a value, throws SFTP::Error(status, message),
\* or throws std::system_error.
Returned(v) == [kind |-> "value", status |-> 0, msg |-> <<>>, value |-> v]
SftpError(code, text) ==
  [kind |-> "sftp_error", status |-> code, msg |-> text, value |-> <<>>]
SystemError == [kind |-> "system_error", status |-> 0, msg |-> <<>>, value |-> <<>>]
NoOutcome == [kind |-> "none", status |-> 0, msg |-> <<>>, value |-> <<>>]

\* error() throwing SFTP::Error without the reply's status code.
ErrorLosesCode(body, after) ==
  IF ~Unpack32Ok(body, 0) \/ Len(body) < 5 \/ ~UnpackStrOk(body, 5)
  THEN SystemError
  ELSE IF body[5] # SSH_FX_OK
  THEN SftpError(SSH_FX_FAILURE, UnpackStr(body, 5))
  ELSE after

\* error() lines 337-349 on a STATUS body: the status word after the ID, the
\* message; a status other than SSH_FX_OK throws SFTP::Error.  With
\* SSH_FX_OK error() returns and the caller goes on to after.
Error(body, after) ==
  IF ~Unpack32Ok(body, 0) \/ Len(body) < 5 \/ ~UnpackStrOk(body, 5)
  THEN SystemError
  ELSE IF body[5] # SSH_FX_OK
  THEN SftpError(body[5], UnpackStr(body, 5))
  ELSE after

\* close accepting any reply type.
CloseAnyType(type, body) ==
  IF type = SSH_FXP_STATUS THEN Error(body, Returned(<<>>)) ELSE Returned(<<>>)

\* close lines 416-419.
CloseOutcome(type, body) ==
  IF type = SSH_FXP_STATUS THEN Error(body, Returned(<<>>)) ELSE SystemError

\* One bit of an attribute flags word.
Bit(flags, b) == (flags \div b) % 2

\* Attributes::unpack: the words that follow the flags word: size, uid and
\* gid, permissions, atime and mtime, each when its flag is set.
AttrWords(flags) ==
  Bit(flags, SSH_FILEXFER_ATTR_SIZE) + 2 * Bit(flags, SSH_FILEXFER_ATTR_UIDGID)
    + Bit(flags, SSH_FILEXFER_ATTR_PERMISSIONS) + 2 * Bit(flags, SSH_FILEXFER_ACMODTIME)

\* unpacknames lines 357-363: count records, each filename, longname and
\* attributes; a record that runs past the end of the reply throws.
RECURSIVE UnpackRecords(_, _, _)
UnpackRecords(s, pos, count) ==
  IF count = 0 THEN [ok |-> TRUE, names |-> <<>>]
  ELSE IF ~UnpackStrOk(s, pos) THEN [ok |-> FALSE, names |-> <<>>]
  ELSE LET filename == UnpackStr(s, pos)
           p2 == pos + 1 + Len(filename)
       IN
       IF ~UnpackStrOk(s, p2) THEN [ok |-> FALSE, names |-> <<>>]
       ELSE LET longname == UnpackStr(s, p2)
                p3 == p2 + 1 + Len(longname)
            IN
            IF Len(s) - p3 < 1 \/ Len(s) - p3 - 1 < AttrWords(s[p3 + 1])
            THEN [ok |-> FALSE, names |-> <<>>]
            ELSE LET a == [filename |-> filename, longname |-> longname,
                           flags |-> s[p3 + 1],
                           attrs |-> SubSeq(s, p3 + 2, p3 + 1 + AttrWords(s[p3 + 1]))]
                     rest == UnpackRecords(s, p3 + 1 + AttrWords(s[p3 + 1]), count - 1)
                 IN
                 [ok |-> rest.ok, names |-> <<a>> \o rest.names]

\* unpacknames line 356: the count, then the records.
UnpackNames(s, pos) ==
  IF Len(s) - pos < 1 THEN [ok |-> FALSE, names |-> <<>>]
  ELSE UnpackRecords(s, pos + 1, s[pos + 1])

\* finish_readdir line 571 with unpacknames lines 352-363: unpacknames takes
\* the vector by value and pushes the records onto its copy, so the caller's
\* vector is what it was.
FinishReaddirNames(type, body, names) == names

\* The switch on the reply type that ends each call (open 392-401, gstat
\* 481-487, realpath 502-512, finish_readdir 570-575, finish_read 539-547,
\* close 416-419).
ApiOutcome(op, type, body) ==
  IF op = "close" THEN CloseOutcome(type, body)
  ELSE IF op = "read"
  THEN LET r == FinishRead(type, body) IN
       IF type = SSH_FXP_DATA \/ ~r.err THEN Returned(<<r.off, r.len>>)
       ELSE IF type = SSH_FXP_STATUS THEN Error(body, SystemError)
       ELSE SystemError
  ELSE IF type = SSH_FXP_STATUS THEN Error(body, SystemError)
  ELSE IF op \in {"open", "opendir"} /\ type = SSH_FXP_HANDLE
  THEN IF UnpackStrOk(body, 4) THEN Returned(UnpackStr(body, 4)) ELSE SystemError
  ELSE IF op \in {"stat", "lstat", "fstat"} /\ type = SSH_FXP_ATTRS
  THEN IF Len(body) >= 5 THEN Returned(<<body[5]>>) ELSE SystemError
  ELSE IF op = "realpath" /\ type = SSH_FXP_NAME
  THEN IF Len(body) >= 5 /\ body[5] = 1 /\ UnpackStrOk(body, 5)
       THEN Returned(UnpackStr(body, 5)) ELSE SystemError
  ELSE IF op = "readdir" /\ type = SSH_FXP_NAME
  THEN IF UnpackNames(body, 4).ok THEN Returned(<<>>) ELSE SystemError
  ELSE SystemError

\* ---------------------------------------------------------- caller threads

\* The offset caller t reads: each caller reads a chunk of its own.
ReqOffset(t) == (t - 1) * chunk

\* begin_read, first half: newid().
CallNewId(t) ==
  /\ Running
  /\ UNCHANGED progvars
  /\ UNCHANGED apivars
  /\ pc[t] = "idle"
  /\ nreq < MaxReqs
  /\ nreq' = nreq + 1
  /\ NewId(t)
  /\ Goto(t, "send")
  /\ UNCHANGED <<replies, poll_quit, cv, joinable, fds_open, pid_live>>
  /\ UNCHANGED <<terminated, pbuf, got, srvvars, pumpvars>>

\* begin_read, second half: send(cmd); a failed write throws to the caller.
CallSend(t) ==
  /\ Running
  /\ UNCHANGED progvars
  /\ UNCHANGED apivars
  /\ pc[t] = "send"
  /\ \/ /\ SendFrame(ReadRequest(myid[t], ReqOffset(t), chunk))
        /\ Goto(t, "await")
     \/ /\ ~CanWrite
        /\ Goto(t, "failed")
        /\ UNCHANGED <<srv_pending, cv>>
  /\ UNCHANGED <<nextid, waiting, replies, poll_quit, joinable, fds_open, pid_live>>
  /\ UNCHANGED <<terminated, pbuf, callvars, pipe, srv_alive, fsize, file_ok, eof_replies, short_replies, pumpvars>>

\* finish_read: await_reply(id, reply).
CallAwait(t) ==
  /\ Running
  /\ UNCHANGED progvars
  /\ UNCHANGED apivars
  /\ pc[t] = "await"
  /\ AwaitReply(t, "reply")
  /\ UNCHANGED <<nextid, waiting, poll_quit, joinable, fds_open, pid_live>>
  /\ UNCHANGED <<terminated, pbuf, myid, nreq, srvvars, pumpvars>>

\* finish_read: the switch on the reply type.
CallFinish(t) ==
  /\ Running
  /\ UNCHANGED progvars
  /\ UNCHANGED apivars
  /\ pc[t] = "reply"
  /\ IF FinishRead(got[t].type, got[t].body).err
     THEN Goto(t, "failed")
     ELSE Goto(t, "idle")
  /\ got' = [got EXCEPT ![t] = NoReply]
  /\ myid' = [myid EXCEPT ![t] = Zero32]
  /\ UNCHANGED <<terminated, pbuf, connvars, nreq, srvvars, pumpvars>>


\* ------------------------------------------------------------ poll thread

\* poll lines 295-308: pause until there is a waiter or poll_quit; return on
\* poll_quit.
PollWait ==
  /\ Running
  /\ UNCHANGED progvars
  /\ UNCHANGED apivars
  /\ pc[PollerT] = "poll"
  /\ PollerT \notin cv
  /\ IF waiting = {} /\ ~poll_quit
     THEN cv' = cv \cup {PollerT} /\ pc' = pc
     ELSE /\ cv' = cv
          /\ IF poll_quit THEN Goto(PollerT, "exited") ELSE Goto(PollerT, "read")
  /\ UNCHANGED <<nextid, waiting, replies, poll_quit, joinable, fds_open, pid_live>>
  /\ UNCHANGED <<terminated, pbuf, callvars, srvvars, pumpvars>>

\* recv_reply line 217 and poll's unpack32 at line 315: the frame has a
\* non-zero length word and a body that holds the four ID bytes.
GoodFrame(f) == f.len # 0 /\ Unpack32Ok(f.body, 0)

\* What the next frame read from rfd can be: the oldest frame in the pipe,
\* or, with the pipe empty and the child alive, a frame it writes that the
\* client cannot parse.
NextFrames ==
  IF pipe # <<>> THEN {Head(pipe)}
  ELSE IF srv_alive THEN {ZeroLengthFrame, ShortBodyFrame}
  ELSE {}

\* poll without the unpack32 of line 315: any frame recv_reply accepts goes
\* on to be stashed.
PollReadUnchecked ==
  /\ Running
  /\ UNCHANGED progvars
  /\ UNCHANGED apivars
  /\ pc[PollerT] = "read"
  /\ input = <<>>
  /\ \E f \in NextFrames :
       /\ f.len # 0
       /\ pbuf' = [type |-> f.type, body |-> f.body,
                   id |-> IF Unpack32Ok(f.body, 0) THEN Unpack32(f.body, 0) ELSE Zero32]
  /\ pipe' = IF pipe # <<>> THEN Tail(pipe) ELSE pipe
  /\ Goto(PollerT, "stash")
  /\ UNCHANGED <<terminated, connvars, callvars, srv_pending, srv_alive, fsize, file_ok, eof_replies, short_replies, pumpvars>>

\* poll lines 313-315: recv_reply(buffer) and unpack32(buffer, pos), outside
\* the lock; blocks while the pipe is empty and the child holds its end.
PollRead ==
  /\ Running
  /\ UNCHANGED progvars
  /\ UNCHANGED apivars
  /\ pc[PollerT] = "read"
  /\ input = <<>>
  /\ \E f \in NextFrames :
       /\ GoodFrame(f)
       /\ pbuf' = [type |-> f.type, body |-> f.body, id |-> Unpack32(f.body, 0)]
  /\ pipe' = IF pipe # <<>> THEN Tail(pipe) ELSE pipe
  /\ Goto(PollerT, "stash")
  /\ UNCHANGED <<terminated, connvars, callvars, srv_pending, srv_alive, fsize, file_ok, eof_replies, short_replies, pumpvars>>

\* recv or unpack32 throws inside poll: end of stream (the child has closed
\* its end and nothing is left to read), a zero-length frame, a body shorter
\* than the ID, or read() failing.  poll catches nothing and is the thread
\* function, so the exception ends the process (std::terminate).
PollReadFail ==
  /\ Running
  /\ UNCHANGED progvars
  /\ UNCHANGED apivars
  /\ pc[PollerT] = "read"
  /\ input = <<>>
  /\ \/ pipe = <<>> /\ ~srv_alive
     \/ \E f \in NextFrames : ~GoodFrame(f)
  /\ terminated' = "poll"
  /\ UNCHANGED <<pc, pbuf, connvars, callvars, srvvars, pumpvars>>

\* poll without line 324: the ID stays in waiting.
StashWaitingKept(id) == waiting

\* poll line 324: the IDs still outstanding once id's reply is stashed.
StashWaiting(id) == waiting \ {id}

\* poll line 322: the key the reply is stashed under.
StashKey(b) == b.id

\* poll lines 320-324, under the lock: stash the reply, drop the ID from
\* waiting.
PollStash ==
  /\ Running
  /\ UNCHANGED progvars
  /\ UNCHANGED apivars
  /\ pc[PollerT] = "stash"
  /\ LET k == StashKey(pbuf) IN
     replies' = [i \in DOMAIN replies \cup {k} |->
                   IF i = k THEN [type |-> pbuf.type, body |-> pbuf.body]
                   ELSE replies[i]]
  /\ waiting' = StashWaiting(pbuf.id)
  /\ pbuf' = NoBuffer
  /\ Goto(PollerT, "notify")
  /\ UNCHANGED <<nextid, poll_quit, cv, joinable, fds_open, pid_live>>
  /\ UNCHANGED <<terminated, callvars, srvvars, pumpvars>>

\* poll line 329: cond.notify_all().
PollNotify ==
  /\ Running
  /\ UNCHANGED progvars
  /\ UNCHANGED apivars
  /\ pc[PollerT] = "notify"
  /\ cv' = {}
  /\ Goto(PollerT, "poll")
  /\ UNCHANGED <<nextid, waiting, replies, poll_quit, joinable, fds_open, pid_live>>
  /\ UNCHANGED <<terminated, pbuf, callvars, srvvars, pumpvars>>

\* ------------------------------------------------------------ the server

\* The server answers any one of the requests it holds.
ServerReply ==
  /\ Running
  /\ UNCHANGED progvars
  /\ UNCHANGED apivars
  /\ srv_alive
  /\ \E req \in srv_pending :
       /\ pipe' = Append(pipe, ServerAnswer(req))
       /\ srv_pending' = srv_pending \ {req}
       /\ eof_replies' = eof_replies + (IF IsEofFrame(ServerAnswer(req)) THEN 1 ELSE 0)
  /\ UNCHANGED <<pc, terminated, pbuf, connvars, callvars, pumpvars>>
  /\ UNCHANGED <<srv_alive, fsize, file_ok, short_replies>>

\* The DATA lengths a server may return for a READ that could return full
\* bytes: half of them, when that is fewer and at least one.
ShortLens(full) == {full \div 2} \ {0, full}

\* The server answers a READ it holds with fewer bytes than it could.
ServerReplyShort ==
  /\ Running
  /\ UNCHANGED progvars
  /\ UNCHANGED apivars
  /\ srv_alive
  /\ file_ok
  /\ short_replies < MaxShort
  /\ \E req \in srv_pending :
       /\ req.type = SSH_FXP_READ
       /\ req.body[5] < fsize
       /\ \E n \in ShortLens(Min(req.body[6], fsize - req.body[5])) :
            pipe' = Append(pipe, Frame(SSH_FXP_DATA,
                       SubSeq(req.body, 1, 4) \o <<req.body[5], n>>))
       /\ srv_pending' = srv_pending \ {req}
  /\ short_replies' = short_replies + 1
  /\ UNCHANGED <<pc, terminated, pbuf, connvars, callvars, pumpvars>>
  /\ UNCHANGED <<srv_alive, fsize, file_ok, eof_replies>>

\* The server fails a CLOSE it holds (STATUS FAILURE).
ServerReplyFailure ==
  /\ Running
  /\ UNCHANGED progvars
  /\ UNCHANGED apivars
  /\ srv_alive
  /\ \E req \in srv_pending :
       /\ req.type = SSH_FXP_CLOSE
       /\ pipe' = Append(pipe, ServerFailure(req))
       /\ srv_pending' = srv_pending \ {req}
  /\ UNCHANGED <<pc, terminated, pbuf, connvars, callvars, srv_alive, fsize, file_ok, eof_replies, short_replies, pumpvars>>

\* The remote file becomes unreadable: from now on the server fails READs.
RemoteFileFails ==
  /\ Running
  /\ UNCHANGED progvars
  /\ UNCHANGED apivars
  /\ srv_alive
  /\ file_ok
  /\ file_ok' = FALSE
  /\ UNCHANGED <<pc, terminated, pbuf, connvars, callvars, pumpvars>>
  /\ UNCHANGED <<srv_pending, pipe, srv_alive, fsize, eof_replies, short_replies>>

\* The child process dies: requests it held are lost, what it had written
\* stays readable, then the pipe is at end of stream.
ServerCrash ==
  /\ Running
  /\ UNCHANGED progvars
  /\ UNCHANGED apivars
  /\ srv_alive
  /\ fds_open
  /\ srv_alive' = FALSE
  /\ srv_pending' = {}
  /\ UNCHANGED <<pc, terminated, pbuf, connvars, callvars, pipe, fsize, file_ok, eof_replies, short_replies, pumpvars>>

\* The child process sees end of file on its stdin once disconnect has
\* closed wfd, and exits.
ChildExitOnEof ==
  /\ Running
  /\ UNCHANGED progvars
  /\ UNCHANGED apivars
  /\ srv_alive
  /\ ~fds_open
  /\ srv_alive' = FALSE
  /\ srv_pending' = {}
  /\ UNCHANGED <<pc, terminated, pbuf, connvars, callvars, pipe, fsize, file_ok, eof_replies, short_replies, pumpvars>>

\* ---------------------------------------------------- feed_file (pump)

\* feed_file letting one read more than inflight_limit into the window.
WindowOneMore == Len(ids) <= inflight_limit

\* Line 216: ids.size() < inflight_limit.
WindowOpen == Len(ids) < inflight_limit

\* Line 216-217: fewer than inflight_limit reads in flight; begin_read takes
\* an ID.
PumpBeginRead ==
  /\ Running
  /\ UNCHANGED progvars
  /\ UNCHANGED apivars
  /\ pc[PumpT] = "fill"
  /\ WindowOpen
  /\ NewId(PumpT)
  /\ Goto(PumpT, "bsend")
  /\ UNCHANGED <<replies, poll_quit, cv, joinable, fds_open, pid_live>>
  /\ UNCHANGED <<terminated, pbuf, got, nreq, srvvars, pumpvars>>

\* Lines 217-219: begin_read sends READ(offset, chunk); then offset += chunk
\* and the ID is queued.  A failed write throws into the catch of line 239.
PumpBeginSend ==
  /\ Running
  /\ UNCHANGED progvars
  /\ UNCHANGED apivars
  /\ pc[PumpT] = "bsend"
  /\ IF CanWrite
     THEN /\ SendFrame(ReadRequest(myid[PumpT], offset, chunk))
          /\ offset' = offset + chunk
          /\ ids' = Append(ids, myid[PumpT])
          /\ Goto(PumpT, "fill")
          /\ UNCHANGED pump_exit
     ELSE /\ pump_exit' = "begin_read"
          /\ Goto(PumpT, "drain")
          /\ UNCHANGED <<srv_pending, cv, offset, ids>>
  /\ UNCHANGED <<nextid, waiting, replies, poll_quit, joinable, fds_open, pid_live>>
  /\ UNCHANGED <<terminated, pbuf, callvars, pipe, srv_alive, fsize, file_ok, eof_replies, short_replies>>
  /\ UNCHANGED <<result, sink, reader_open, fd_closes, close_sent>>

\* Lines 222-223: the window is full; take the oldest ID.
PumpTake ==
  /\ Running
  /\ UNCHANGED progvars
  /\ UNCHANGED apivars
  /\ pc[PumpT] = "fill"
  /\ ~WindowOpen
  /\ myid' = [myid EXCEPT ![PumpT] = Head(ids)]
  /\ ids' = Tail(ids)
  /\ Goto(PumpT, "fawait")
  /\ UNCHANGED <<terminated, pbuf, connvars, got, nreq, srvvars>>
  /\ UNCHANGED <<offset, result, sink, reader_open, fd_closes, close_sent, pump_exit>>

\* Line 224: finish_read's await_reply.
PumpAwait ==
  /\ Running
  /\ UNCHANGED progvars
  /\ UNCHANGED apivars
  /\ pc[PumpT] = "fawait"
  /\ AwaitReply(PumpT, "fgot")
  /\ UNCHANGED <<nextid, waiting, poll_quit, joinable, fds_open, pid_live>>
  /\ UNCHANGED <<terminated, pbuf, myid, nreq, srvvars, pumpvars>>

\* Lines 224-226: finish_read decodes the reply; an empty result leaves the
\* loop, an error status throws into the catch of line 239.
PumpFinishRead ==
  /\ Running
  /\ UNCHANGED progvars
  /\ UNCHANGED apivars
  /\ pc[PumpT] = "fgot"
  /\ LET r == FinishRead(got[PumpT].type, got[PumpT].body) IN
     IF r.err
     THEN /\ pump_exit' = "finish_read"
          /\ Goto(PumpT, "drain")
          /\ UNCHANGED result
     ELSE IF r.len = 0
     THEN /\ pump_exit' = "eof"
          /\ Goto(PumpT, "drain")
          /\ UNCHANGED result
     ELSE /\ result' = r
          /\ Goto(PumpT, "write")
          /\ UNCHANGED pump_exit
  /\ got' = [got EXCEPT ![PumpT] = NoReply]
  /\ UNCHANGED <<terminated, pbuf, connvars, myid, nreq, srvvars>>
  /\ UNCHANGED <<offset, ids, sink, reader_open, fd_closes, close_sent>>

\* feed_file waiting for the rest of a short read: after writing fewer bytes
\* than chunk it queues the same ID again.
PumpWriteRequeue ==
  /\ Running
  /\ UNCHANGED progvars
  /\ UNCHANGED apivars
  /\ pc[PumpT] = "write"
  /\ reader_open
  /\ sink' = Append(sink, <<result.off, result.len>>)
  /\ offset' = offset + result.len
  /\ ids' = IF result.len < chunk THEN <<myid[PumpT]>> \o ids ELSE ids
  /\ Goto(PumpT, "fill")
  /\ result' = NoResult
  /\ UNCHANGED <<terminated, pbuf, connvars, callvars, srvvars>>
  /\ UNCHANGED <<reader_open, fd_closes, close_sent, pump_exit>>

\* Lines 227-235: writeall to the sink, then offset += result.size().  EPIPE
\* leaves the loop; any other write error throws into the catch.
PumpWrite ==
  /\ Running
  /\ UNCHANGED progvars
  /\ UNCHANGED apivars
  /\ pc[PumpT] = "write"
  /\ \/ /\ reader_open
        /\ sink' = Append(sink, <<result.off, result.len>>)
        /\ offset' = offset + result.len
        /\ Goto(PumpT, "fill")
        /\ UNCHANGED pump_exit
     \/ /\ ~reader_open
        /\ pump_exit' = "epipe"
        /\ Goto(PumpT, "drain")
        /\ UNCHANGED <<sink, offset>>
     \/ /\ reader_open
        /\ pump_exit' = "write"
        /\ Goto(PumpT, "drain")
        /\ UNCHANGED <<sink, offset>>
  /\ result' = NoResult
  /\ UNCHANGED <<terminated, pbuf, connvars, callvars, srvvars>>
  /\ UNCHANGED <<ids, reader_open, fd_closes, close_sent>>

\* feed_file closing without reaping the reads still in flight.
PumpDrainSkip ==
  /\ Running
  /\ UNCHANGED progvars
  /\ UNCHANGED apivars
  /\ pc[PumpT] = "drain"
  /\ Goto(PumpT, "closefd")
  /\ UNCHANGED <<terminated, pbuf, connvars, callvars, srvvars, pumpvars>>

\* The reap loop leaving IDs in ids behind.
ReapMoreNever == FALSE

\* Line 243: while(ids.size() > 0).
ReapMore == Len(ids) > 0

\* Lines 243-246: reap the remaining reads, oldest first.
PumpDrain ==
  /\ Running
  /\ UNCHANGED progvars
  /\ UNCHANGED apivars
  /\ pc[PumpT] = "drain"
  /\ IF ReapMore
     THEN /\ myid' = [myid EXCEPT ![PumpT] = Head(ids)]
          /\ ids' = Tail(ids)
          /\ Goto(PumpT, "dawait")
     ELSE /\ Goto(PumpT, "closefd")
          /\ UNCHANGED <<myid, ids>>
  /\ got' = [got EXCEPT ![PumpT] = NoReply]
  /\ UNCHANGED <<terminated, pbuf, connvars, nreq, srvvars>>
  /\ UNCHANGED <<offset, result, sink, reader_open, fd_closes, close_sent, pump_exit>>

\* Line 247: finish_read's await_reply; what the reply says is ignored.
PumpDrainAwait ==
  /\ Running
  /\ UNCHANGED progvars
  /\ UNCHANGED apivars
  /\ pc[PumpT] = "dawait"
  /\ AwaitReply(PumpT, "drain")
  /\ UNCHANGED <<nextid, waiting, poll_quit, joinable, fds_open, pid_live>>
  /\ UNCHANGED <<terminated, pbuf, myid, nreq, srvvars, pumpvars>>

\* Line 253: close(fd).
PumpCloseFd ==
  /\ Running
  /\ UNCHANGED progvars
  /\ UNCHANGED apivars
  /\ pc[PumpT] = "closefd"
  /\ fd_closes' = fd_closes + 1
  /\ Goto(PumpT, "cnewid")
  /\ UNCHANGED <<terminated, pbuf, connvars, callvars, srvvars>>
  /\ UNCHANGED <<offset, ids, result, sink, reader_open, close_sent, pump_exit>>

\* Line 254, conn->close: newid().
PumpCloseNewId ==
  /\ Running
  /\ UNCHANGED progvars
  /\ UNCHANGED apivars
  /\ pc[PumpT] = "cnewid"
  /\ NewId(PumpT)
  /\ Goto(PumpT, "csend")
  /\ UNCHANGED <<replies, poll_quit, cv, joinable, fds_open, pid_live>>
  /\ UNCHANGED <<terminated, pbuf, got, nreq, srvvars, pumpvars>>

\* conn->close: send(CLOSE).  Nothing catches a failed write here: the
\* exception leaves the thread function and the process is terminated.
PumpCloseSend ==
  /\ Running
  /\ UNCHANGED progvars
  /\ UNCHANGED apivars
  /\ pc[PumpT] = "csend"
  /\ IF CanWrite
     THEN /\ SendFrame(CloseRequest(myid[PumpT]))
          /\ close_sent' = close_sent + 1
          /\ Goto(PumpT, "cawait")
          /\ UNCHANGED terminated
     ELSE /\ terminated' = "feed_file"
          /\ UNCHANGED <<srv_pending, cv, close_sent, pc>>
  /\ UNCHANGED <<nextid, waiting, replies, poll_quit, joinable, fds_open, pid_live>>
  /\ UNCHANGED <<pbuf, callvars, pipe, srv_alive, fsize, file_ok, eof_replies, short_replies>>
  /\ UNCHANGED <<offset, ids, result, sink, reader_open, fd_closes, pump_exit>>

\* conn->close: await_reply.
PumpCloseAwait ==
  /\ Running
  /\ UNCHANGED progvars
  /\ UNCHANGED apivars
  /\ pc[PumpT] = "cawait"
  /\ AwaitReply(PumpT, "cgot")
  /\ UNCHANGED <<nextid, waiting, poll_quit, joinable, fds_open, pid_live>>
  /\ UNCHANGED <<terminated, pbuf, myid, nreq, srvvars, pumpvars>>

\* conn->close lines 416-419: STATUS OK returns; any other status or type
\* throws out of the thread function.
PumpCloseFinish ==
  /\ Running
  /\ UNCHANGED progvars
  /\ UNCHANGED apivars
  /\ pc[PumpT] = "cgot"
  /\ IF CloseOutcome(got[PumpT].type, got[PumpT].body).kind = "value"
     THEN /\ Goto(PumpT, "done")
          /\ UNCHANGED terminated
     ELSE /\ terminated' = "feed_file"
          /\ UNCHANGED pc
  /\ got' = [got EXCEPT ![PumpT] = NoReply]
  /\ UNCHANGED <<pbuf, connvars, myid, nreq, srvvars, pumpvars>>

\* diff stops reading: the read end of the pump's pipe is closed.
ReaderCloses ==
  /\ Running
  /\ UNCHANGED progvars
  /\ UNCHANGED apivars
  /\ reader_open
  /\ reader_open' = FALSE
  /\ UNCHANGED <<pc, terminated, pbuf, connvars, callvars, srvvars>>
  /\ UNCHANGED <<offset, ids, result, sink, fd_closes, close_sent, pump_exit>>

\* ------------------------------------------------- API calls of thread 1

\* The caller's paths: every string over the two characters up to the bound.
RECURSIVE StringsUpTo(_)
StringsUpTo(n) ==
  IF n = 0 THEN {<<>>}
  ELSE LET shorter == StringsUpTo(n - 1) IN
       shorter \cup {<<c>> \o str : c \in {Slash, PathLetter}, str \in shorter}

Paths == StringsUpTo(MaxPathLen)

\* What the server may have reported as the home directory.
Homes == {p \in Paths : Len(p) = MaxPathLen}

\* Handles are opaque strings; the model has one.
TheHandle == <<PathLetter, PathLetter>>

\* The offsets thread 1 reads at: inside the file, at its end and beyond.
ReadOffsets == {k * chunk : k \in 0 .. inflight_limit}

\* A directory entry as the caller holds it, and as the server sends it.
AnEntry ==
  [filename |-> <<PathLetter>>, longname |-> <<PathLetter, PathLetter>>,
   flags |-> 0, attrs |-> <<>>]
EntryBytes(a) == PackStr(a.filename) \o PackStr(a.longname) \o <<a.flags>> \o a.attrs

\* A second entry, with permissions.
OtherEntry ==
  [filename |-> <<Slash>>, longname |-> <<>>,
   flags |-> SSH_FILEXFER_ATTR_PERMISSIONS, attrs |-> <<1>>]

\* What the caller's names vector holds before finish_readdir.
PriorNames == {<<>>, <<AnEntry>>}

NoCall ==
  [op |-> "none", arg |-> <<>>, off |-> 0, req |-> [type |-> "", body |-> <<>>],
   reply |-> NoReply, out |-> NoOutcome, names0 |-> <<>>, names |-> <<>>]

\* A call begins: its first step is newid().
ApiBegin ==
  /\ Running
  /\ UNCHANGED progvars
  /\ pc[1] = "api_idle"
  /\ nreq < MaxReqs
  /\ nreq' = nreq + 1
  /\ \E op \in ApiOps :
       \E arg \in (IF op \in PathOps THEN Paths ELSE {TheHandle}) :
         \E off \in (IF op = "read" THEN ReadOffsets ELSE {0}) :
           \E names \in (IF op = "readdir" THEN PriorNames ELSE {<<>>}) :
             api' = [NoCall EXCEPT !.op = op, !.arg = arg, !.off = off,
                                   !.names0 = names, !.names = names]
  /\ NewId(1)
  /\ Goto(1, "api_send")
  /\ UNCHANGED <<replies, poll_quit, cv, joinable, fds_open, pid_live>>
  /\ UNCHANGED <<terminated, pbuf, got, srvvars, pumpvars, home, connects, input, srv_first>>

\* The call packs its request and sends it.
ApiSend ==
  /\ Running
  /\ UNCHANGED progvars
  /\ pc[1] = "api_send"
  /\ LET req == ApiRequest(api.op, myid[1], home, api.arg, api.off) IN
     IF CanWrite
     THEN /\ SendFrame(req)
          /\ api' = [api EXCEPT !.req = req]
          /\ Goto(1, "api_await")
     ELSE /\ api' = [api EXCEPT !.req = req, !.out = SystemError]
          /\ Goto(1, "api_idle")
          /\ UNCHANGED <<srv_pending, cv>>
  /\ UNCHANGED <<nextid, waiting, replies, poll_quit, joinable, fds_open, pid_live>>
  /\ UNCHANGED <<terminated, pbuf, callvars, pumpvars, home, connects, input, srv_first>>
  /\ UNCHANGED <<pipe, srv_alive, fsize, file_ok, eof_replies, short_replies>>

\* await_reply(id, reply).
ApiAwait ==
  /\ Running
  /\ UNCHANGED progvars
  /\ pc[1] = "api_await"
  /\ AwaitReply(1, "api_reply")
  /\ UNCHANGED <<nextid, waiting, poll_quit, joinable, fds_open, pid_live>>
  /\ UNCHANGED <<terminated, pbuf, myid, nreq, srvvars, pumpvars, apivars>>

\* The switch on the reply type: the call returns or throws.
ApiReturn ==
  /\ Running
  /\ UNCHANGED progvars
  /\ pc[1] = "api_reply"
  /\ api' = [api EXCEPT !.reply = got[1],
                        !.out = ApiOutcome(api.op, got[1].type, got[1].body),
                        !.names = IF api.op = "readdir"
                                  THEN FinishReaddirNames(got[1].type, got[1].body, api.names)
                                  ELSE api.names]
  /\ got' = [got EXCEPT ![1] = NoReply]
  /\ Goto(1, "api_idle")
  /\ UNCHANGED <<terminated, pbuf, connvars, myid, nreq, srvvars, pumpvars>>
  /\ UNCHANGED <<home, connects, input, srv_first>>

\* What a server can answer to a request: the proper answer, a STATUS with
\* any of the codes, or a reply of any other type.
ApiReplies(req) ==
  LET idb == SubSeq(req.body, 1, 4) IN
  {ServerAnswer(req)}
    \cup {StatusFrame(idb, c, ServerText) : c \in SSH_FX_OK .. SSH_FX_FAILURE}
    \cup {Frame(SSH_FXP_HANDLE, idb \o PackStr(TheHandle)),
          Frame(SSH_FXP_ATTRS, idb \o <<0>>),
          Frame(SSH_FXP_NAME, idb \o <<1>> \o PackStr(<<Slash, PathLetter>>)),
          Frame(SSH_FXP_NAME, idb \o <<MaxPathLen>> \o PackStr(<<Slash>>) \o PackStr(<<Slash>>)),
          Frame(SSH_FXP_NAME, idb \o <<MaxPathLen>> \o EntryBytes(OtherEntry) \o EntryBytes(AnEntry)),
          Frame(SSH_FXP_DATA, idb \o <<0, 1>>)}

\* The server answers a request it holds.
ApiServerReply ==
  /\ Running
  /\ UNCHANGED progvars
  /\ srv_alive
  /\ \E req \in srv_pending :
       /\ \E f \in ApiReplies(req) : pipe' = Append(pipe, f)
       /\ srv_pending' = srv_pending \ {req}
  /\ UNCHANGED <<pc, terminated, pbuf, connvars, callvars, pumpvars, apivars>>
  /\ UNCHANGED <<srv_alive, fsize, file_ok, eof_replies, short_replies>>

\* -------------------------------------------------------------- disconnect

\* disconnect taking the poll thread to be joinable whatever it is.
PollerJoinableAlways == TRUE

\* disconnect line 119: poller.joinable().
PollerJoinable == joinable

\* disconnect lines 119-123: if(poller.joinable()) { lock; poll_quit = true }.
DiscSetQuit ==
  /\ Running
  /\ UNCHANGED progvars
  /\ UNCHANGED apivars
  /\ pc[DiscT] = "idle"
  /\ IF PollerJoinable
     THEN poll_quit' = TRUE /\ Goto(DiscT, "notify")
     ELSE poll_quit' = poll_quit /\ Goto(DiscT, "closefds")
  /\ UNCHANGED <<nextid, waiting, replies, cv, joinable, fds_open, pid_live>>
  /\ UNCHANGED <<terminated, pbuf, callvars, srvvars, pumpvars>>

\* disconnect line 124: cond.notify_all().
DiscNotify ==
  /\ Running
  /\ UNCHANGED progvars
  /\ UNCHANGED apivars
  /\ pc[DiscT] = "notify"
  /\ cv' = {}
  /\ Goto(DiscT, "join")
  /\ UNCHANGED <<nextid, waiting, replies, poll_quit, joinable, fds_open, pid_live>>
  /\ UNCHANGED <<terminated, pbuf, callvars, srvvars, pumpvars>>

\* disconnect line 127: poller.join() returns once poll has returned.
DiscJoin ==
  /\ Running
  /\ UNCHANGED progvars
  /\ UNCHANGED apivars
  /\ pc[DiscT] = "join"
  /\ pc[PollerT] = "exited"
  /\ joinable' = FALSE
  /\ Goto(DiscT, "closefds")
  /\ UNCHANGED <<nextid, waiting, replies, poll_quit, cv, fds_open, pid_live>>
  /\ UNCHANGED <<terminated, pbuf, callvars, srvvars, pumpvars>>

\* disconnect lines 130-134: close rfd and wfd.
DiscCloseFds ==
  /\ Running
  /\ UNCHANGED progvars
  /\ UNCHANGED apivars
  /\ pc[DiscT] = "closefds"
  /\ fds_open' = FALSE
  /\ Goto(DiscT, "waitpid")
  /\ UNCHANGED <<nextid, waiting, replies, poll_quit, cv, joinable, pid_live>>
  /\ UNCHANGED <<terminated, pbuf, callvars, srvvars, pumpvars>>

\* disconnect lines 136-143: waitpid(pid) returns once the child has exited.
DiscWaitpid ==
  /\ Running
  /\ UNCHANGED progvars
  /\ UNCHANGED apivars
  /\ pc[DiscT] = "waitpid"
  /\ pid_live => ~srv_alive
  /\ pid_live' = FALSE
  /\ Goto(DiscT, "done")
  /\ UNCHANGED <<nextid, waiting, replies, poll_quit, cv, joinable, fds_open>>
  /\ UNCHANGED <<terminated, pbuf, callvars, srvvars, pumpvars>>


\* ----------------------------------------------------------------- connect

\* connect line 91: if(version < 3) syserror(...).
VersionOk(v) == ~(v[1] = 0 /\ v[2] < 3)

\* connect lines 87-92: the reply is VERSION, its body holds a version word,
\* and the version is at least 3.
HandshakeOk(type, body) ==
  /\ type = SSH_FXP_VERSION
  /\ Unpack32Ok(body, 0)
  /\ VersionOk(Unpack32(body, 0))

\* connect lines 80-83: INIT with version 3.
InitRequest == [type |-> SSH_FXP_INIT, body |-> Pack32(<<0, InitVersion>>)]

\* The server versions of the model: below 3, 3, and one whose low half is 0.
HandshakeVersions == {<<0, InitVersion - 1>>, <<0, InitVersion>>, <<1, 0>>}

\* Frames a child can write when it has INIT: VERSION with a version, a frame
\* of another type, a frame with a zero length word.
HandshakeFrames ==
  {Frame(SSH_FXP_VERSION, Pack32(v)) : v \in HandshakeVersions}
    \cup {StatusFrame(Pack32(Zero32), SSH_FX_FAILURE, ServerText), ZeroLengthFrame}

\* What a child writes when it has INIT: one frame, or up to MaxBurst frames
\* before the client reads.
RECURSIVE Bursts(_)
Bursts(n) ==
  IF n = 0 THEN {<<>>}
  ELSE Bursts(n - 1) \cup
       {Append(b, f) : b \in {c \in Bursts(n - 1) : Len(c) = n - 1}, f \in HandshakeFrames}

HandshakeBursts == Bursts(MaxBurst) \ {<<>>}

\* What input, input_total and input_ptr of a new Connection can hold before
\* the first read: they have no initializer, so recv's first
\* input_total - input_ptr is a read of indeterminate values.  Either nothing
\* is taken to be buffered, or some bytes are.
InitialInputs == {<<>>} \cup {<<f>> : f \in HandshakeFrames}

\* connect going on whatever rfd is.
AlreadyConnectedNever == FALSE

\* connect line 37: rfd >= 0.
AlreadyConnected == fds_open

\* connect lines 37-38 and 41-79: return at once when rfd >= 0; otherwise
\* make the pipes, fork the child running ssh, keep wfd and rfd.  input,
\* input_total, input_ptr and poll_quit are left as they are.
ConnEnter ==
  /\ Running
  /\ UNCHANGED progvars
  /\ pc[1] = "c_idle"
  /\ IF AlreadyConnected
     THEN /\ api' = [NoCall EXCEPT !.op = "connect", !.out = Returned(home)]
          /\ Goto(1, "c_done")
          /\ UNCHANGED <<fds_open, pid_live, srv_alive, pipe, srv_pending>>
          /\ UNCHANGED <<connects, srv_first>>
     ELSE /\ connects < MaxConnects
          /\ connects' = connects + 1
          /\ fds_open' = TRUE
          /\ pid_live' = TRUE
          /\ srv_alive' = TRUE
          /\ pipe' = <<>>
          /\ srv_pending' = {}
          /\ srv_first' = NoFrame
          /\ api' = [NoCall EXCEPT !.op = "connect"]
          /\ Goto(1, "c_init")
  /\ UNCHANGED <<nextid, waiting, replies, poll_quit, cv, joinable>>
  /\ UNCHANGED <<terminated, pbuf, callvars, pumpvars, home, input>>
  /\ UNCHANGED <<fsize, file_ok, eof_replies, short_replies>>

\* connect lines 80-83: send INIT; a failed write throws into the catch.
ConnSendInit ==
  /\ Running
  /\ UNCHANGED progvars
  /\ pc[1] = "c_init"
  /\ IF CanWrite
     THEN /\ SendFrame(InitRequest)
          /\ Goto(1, "c_recv")
     ELSE /\ Goto(1, "c_catch")
          /\ UNCHANGED <<srv_pending, cv>>
  /\ UNCHANGED <<nextid, waiting, replies, poll_quit, joinable, fds_open, pid_live>>
  /\ UNCHANGED <<terminated, pbuf, callvars, pumpvars, apivars>>
  /\ UNCHANGED <<pipe, srv_alive, fsize, file_ok, eof_replies, short_replies>>

\* connect line 86, recv_reply through recv lines 183-206: bytes buffered in
\* input are used first; with none, read(rfd) takes what the pipe holds into
\* input, and end of stream throws.  A zero length word throws.
ConnRecvReply ==
  /\ Running
  /\ UNCHANGED progvars
  /\ pc[1] = "c_recv"
  /\ \/ /\ input # <<>>
        /\ input' = Tail(input)
        /\ pipe' = pipe
        /\ IF Head(input).len = 0
           THEN Goto(1, "c_catch") /\ got' = got
           ELSE /\ got' = [got EXCEPT ![1] = [type |-> Head(input).type,
                                              body |-> Head(input).body]]
                /\ Goto(1, "c_check")
     \/ /\ input = <<>>
        /\ pipe # <<>>
        /\ input' = Tail(pipe)
        /\ pipe' = <<>>
        /\ IF Head(pipe).len = 0
           THEN Goto(1, "c_catch") /\ got' = got
           ELSE /\ got' = [got EXCEPT ![1] = [type |-> Head(pipe).type,
                                              body |-> Head(pipe).body]]
                /\ Goto(1, "c_check")
     \/ /\ input = <<>>
        /\ pipe = <<>>
        /\ ~srv_alive
        /\ Goto(1, "c_catch")
        /\ UNCHANGED <<input, pipe, got>>
  /\ UNCHANGED <<terminated, pbuf, connvars, myid, nreq, pumpvars>>
  /\ UNCHANGED <<home, api, connects, srv_first>>
  /\ UNCHANGED <<srv_pending, srv_alive, fsize, file_ok, eof_replies, short_replies>>

\* connect lines 87-98: the reply must be VERSION with a version of at least
\* 3; then the poll thread is started.  Otherwise syserror throws into the
\* catch.
ConnCheckVersion ==
  /\ Running
  /\ UNCHANGED progvars
  /\ pc[1] = "c_check"
  /\ api' = [api EXCEPT !.reply = got[1]]
  /\ got' = [got EXCEPT ![1] = NoReply]
  /\ IF HandshakeOk(got[1].type, got[1].body)
     THEN /\ joinable' = TRUE
          /\ pc' = [pc EXCEPT ![1] = "c_newid", ![PollerT] = "poll"]
     ELSE /\ Goto(1, "c_catch")
          /\ UNCHANGED joinable
  /\ UNCHANGED <<nextid, waiting, replies, poll_quit, cv, fds_open, pid_live>>
  /\ UNCHANGED <<terminated, pbuf, myid, nreq, srvvars, pumpvars>>
  /\ UNCHANGED <<home, connects, input, srv_first>>

\* connect line 100, realpath(""): newid().
ConnRealpathNewId ==
  /\ Running
  /\ UNCHANGED progvars
  /\ pc[1] = "c_newid"
  /\ NewId(1)
  /\ Goto(1, "c_rsend")
  /\ UNCHANGED <<replies, poll_quit, cv, joinable, fds_open, pid_live>>
  /\ UNCHANGED <<terminated, pbuf, got, nreq, srvvars, pumpvars, apivars>>

\* realpath(""): send REALPATH; a failed write throws into connect's catch.
ConnRealpathSend ==
  /\ Running
  /\ UNCHANGED progvars
  /\ pc[1] = "c_rsend"
  /\ IF CanWrite
     THEN /\ SendFrame(ApiRequest("realpath", myid[1], home, <<>>, 0))
          /\ Goto(1, "c_await")
     ELSE /\ Goto(1, "c_catch")
          /\ UNCHANGED <<srv_pending, cv>>
  /\ UNCHANGED <<nextid, waiting, replies, poll_quit, joinable, fds_open, pid_live>>
  /\ UNCHANGED <<terminated, pbuf, callvars, pumpvars, apivars>>
  /\ UNCHANGED <<pipe, srv_alive, fsize, file_ok, eof_replies, short_replies>>

\* realpath(""): await_reply.
ConnRealpathAwait ==
  /\ Running
  /\ UNCHANGED progvars
  /\ pc[1] = "c_await"
  /\ AwaitReply(1, "c_home")
  /\ UNCHANGED <<nextid, waiting, poll_quit, joinable, fds_open, pid_live>>
  /\ UNCHANGED <<terminated, pbuf, myid, nreq, srvvars, pumpvars, apivars>>

\* connect line 100: home = realpath(""), and connect returns; an exception
\* from realpath goes to the catch.
ConnSetHome ==
  /\ Running
  /\ UNCHANGED progvars
  /\ pc[1] = "c_home"
  /\ LET out == ApiOutcome("realpath", got[1].type, got[1].body) IN
     IF out.kind = "value"
     THEN /\ home' = out.value
          /\ api' = [api EXCEPT !.out = Returned(out.value)]
          /\ Goto(1, "c_idle")
     ELSE /\ Goto(1, "c_catch")
          /\ UNCHANGED <<home, api>>
  /\ got' = [got EXCEPT ![1] = NoReply]
  /\ UNCHANGED <<terminated, pbuf, connvars, myid, nreq, srvvars, pumpvars>>
  /\ UNCHANGED <<connects, input, srv_first>>

\* connect lines 101-110: the catch closes the pipe ends connect still holds
\* (none once rfd and wfd are set) and calls disconnect().
ConnCatch ==
  /\ Running
  /\ UNCHANGED progvars
  /\ pc[1] = "c_catch"
  /\ pc' = [pc EXCEPT ![1] = "c_disc", ![DiscT] = "idle"]
  /\ UNCHANGED <<terminated, pbuf, connvars, callvars, srvvars, pumpvars, apivars>>

\* connect line 111: disconnect() has returned; throw.
ConnRethrow ==
  /\ Running
  /\ UNCHANGED progvars
  /\ pc[1] = "c_disc"
  /\ pc[DiscT] = "done"
  /\ api' = [api EXCEPT !.out = SystemError]
  /\ pc' = [pc EXCEPT ![1] = "c_idle", ![DiscT] = "off"]
  /\ UNCHANGED <<terminated, pbuf, connvars, callvars, srvvars, pumpvars>>
  /\ UNCHANGED <<home, connects, input, srv_first>>

\* poll's recv_reply with frames buffered in input: the oldest is used; one
\* that cannot be parsed throws in the thread function.
PollReadBuffered ==
  /\ Running
  /\ UNCHANGED progvars
  /\ pc[PollerT] = "read"
  /\ input # <<>>
  /\ input' = Tail(input)
  /\ IF GoodFrame(Head(input))
     THEN /\ pbuf' = [type |-> Head(input).type, body |-> Head(input).body,
                      id |-> Unpack32(Head(input).body, 0)]
          /\ Goto(PollerT, "stash")
          /\ UNCHANGED terminated
     ELSE /\ terminated' = "poll"
          /\ UNCHANGED <<pc, pbuf>>
  /\ UNCHANGED <<connvars, callvars, srvvars, pumpvars>>
  /\ UNCHANGED <<home, api, connects, srv_first>>

\* The child answers a request it holds, INIT before anything else: INIT
\* with a burst of frames, any other request with its answer or a failure
\* status.
ConnServerReply ==
  /\ Running
  /\ UNCHANGED progvars
  /\ srv_alive
  /\ \E req \in srv_pending :
       /\ InitRequest \in srv_pending => req = InitRequest
       /\ \E fs \in (IF req.type = SSH_FXP_INIT THEN HandshakeBursts
                     ELSE {<<ServerAnswer(req)>>, <<ServerFailure(req)>>}) :
            /\ pipe' = pipe \o fs
            /\ srv_first' = IF srv_first = NoFrame THEN fs[1] ELSE srv_first
       /\ srv_pending' = srv_pending \ {req}
  /\ UNCHANGED <<pc, terminated, pbuf, connvars, callvars, pumpvars>>
  /\ UNCHANGED <<home, api, connects, input>>
  /\ UNCHANGED <<srv_alive, fsize, file_ok, eof_replies, short_replies>>

\* -------------------------------------------------------- frames on the wire

\* tobe32: the four bytes of n, most significant first.
ToBE32(n) ==
  << (n \div 16777216) % 256, (n \div HalfWord) % 256, (n \div 256) % 256, n % 256 >>

\* frombe32 of the four bytes of s at position pos (counted from 0).
FromBE32(s, pos) ==
  ((s[pos + 1] * 256 + s[pos + 2]) * 256 + s[pos + 3]) * 256 + s[pos + 4]

\* newpacket: four bytes kept for the length, then the type byte.
NewPacket(type) == <<0, 0, 0, 0, type>>

\* send storing the whole size of s as the length.
SetLengthWhole(s) == ToBE32(Len(s)) \o SubSeq(s, 5, Len(s))

\* send lines 170-171: the length word is the size of s less its own four
\* bytes.
SetLength(s) == ToBE32(Len(s) - 4) \o SubSeq(s, 5, Len(s))

\* recv_reply on the bytes of s: there is a length word, it is not zero, and
\* the bytes it announces are there.
RecvReplyOk(s) ==
  /\ Len(s) >= 4
  /\ FromBE32(s, 0) # 0
  /\ Len(s) >= 4 + FromBE32(s, 0)

\* recv_reply lines 213-226: the type byte and the len - 1 bytes of body.
RecvReply(s) == [type |-> s[5], body |-> SubSeq(s, 6, 4 + FromBE32(s, 0))]

\* The bytes recv_reply leaves unread.
RecvReplyRest(s) == SubSeq(s, 5 + FromBE32(s, 0), Len(s))

\* packstr on bytes: pack32 of the size, then the bytes.
PackStrBytes(str) == ToBE32(Len(str)) \o str

\* The type bytes and the bodies the threads pack: no body, an ID and a
\* string, and a body of LongLen bytes.
WireTypes == {0, Byte - 1}
WireBodies ==
  {<<>>, ToBE32(1) \o PackStrBytes(<<PathLetter>>), [i \in 1 .. LongLen |-> Byte - 1]}

\* What one write(wfd) can take of rem bytes: all of them, or half.
WriteLens(rem) == {rem, rem \div 2} \ {0}

\* send taking the lock whether or not it is held.
LockFreeAlways == TRUE

\* send line 173: std::lock_guard waits until no thread holds lock.
LockFree == lock = 0

\* A caller builds a packet: newpacket(cmd, type), then the pack operations.
WireNewPacket(t) ==
  /\ Running
  /\ UNCHANGED notwire
  /\ pc[t] = "w_idle"
  /\ nreq < MaxSends
  /\ nreq' = nreq + 1
  /\ \E type \in WireTypes, body \in WireBodies :
       /\ packet' = [packet EXCEPT ![t] = [type |-> type, body |-> body]]
       /\ cmd' = [cmd EXCEPT ![t] = NewPacket(type) \o body]
  /\ Goto(t, "w_len")
  /\ UNCHANGED <<terminated, pbuf, connvars, myid, got, srvvars, pumpvars, apivars>>
  /\ UNCHANGED <<written, lock, wire, wire_all, sent, received>>

\* send lines 170-171, before the lock is taken: the length is put in.
WireSetLength(t) ==
  /\ Running
  /\ UNCHANGED notwire
  /\ pc[t] = "w_len"
  /\ cmd' = [cmd EXCEPT ![t] = SetLength(cmd[t])]
  /\ Goto(t, "w_lock")
  /\ UNCHANGED <<terminated, pbuf, connvars, callvars, srvvars, pumpvars, apivars>>
  /\ UNCHANGED <<packet, written, lock, wire, wire_all, sent, received>>

\* send line 173: the lock is taken; the critical section begins.
WireLock(t) ==
  /\ Running
  /\ UNCHANGED notwire
  /\ pc[t] = "w_lock"
  /\ LockFree
  /\ lock' = t
  /\ sent' = Append(sent, packet[t])
  /\ written' = [written EXCEPT ![t] = 0]
  /\ Goto(t, "w_write")
  /\ UNCHANGED <<terminated, pbuf, connvars, callvars, srvvars, pumpvars, apivars>>
  /\ UNCHANGED <<packet, cmd, wire, wire_all, received>>

\* send line 174, writeall: one write(wfd) takes some of the bytes left;
\* writeall returns when all are written.  A failed write makes send throw,
\* which releases the lock.
WireWrite(t) ==
  /\ Running
  /\ UNCHANGED notwire
  /\ pc[t] = "w_write"
  /\ IF CanWrite
     THEN \E k \in WriteLens(Len(cmd[t]) - written[t]) :
            LET bytes == SubSeq(cmd[t], written[t] + 1, written[t] + k) IN
            /\ wire' = wire \o bytes
            /\ wire_all' = wire_all \o bytes
            /\ written' = [written EXCEPT ![t] = written[t] + k]
            /\ IF written[t] + k = Len(cmd[t])
               THEN Goto(t, "w_notify") ELSE pc' = pc
            /\ lock' = lock
     ELSE /\ lock' = 0
          /\ Goto(t, "w_idle")
          /\ UNCHANGED <<wire, wire_all, written>>
  /\ UNCHANGED <<terminated, pbuf, connvars, callvars, srvvars, pumpvars, apivars>>
  /\ UNCHANGED <<packet, cmd, sent, received>>

\* send lines 176-178: cond.notify_all(), then the guard releases the lock.
WireNotify(t) ==
  /\ Running
  /\ UNCHANGED notwire
  /\ pc[t] = "w_notify"
  /\ cv' = SendNotify
  /\ lock' = 0
  /\ Goto(t, "w_idle")
  /\ UNCHANGED <<nextid, waiting, replies, poll_quit, joinable, fds_open, pid_live>>
  /\ UNCHANGED <<terminated, pbuf, callvars, srvvars, pumpvars, apivars>>
  /\ UNCHANGED <<packet, cmd, written, wire, wire_all, sent, received>>

\* The other end parses the next frame off the wire once all of it is there.
WireParse ==
  /\ Running
  /\ UNCHANGED notwire
  /\ srv_alive
  /\ RecvReplyOk(wire)
  /\ received' = Append(received, RecvReply(wire))
  /\ wire' = RecvReplyRest(wire)
  /\ UNCHANGED <<pc, terminated, pbuf, connvars, callvars, srvvars, pumpvars, apivars>>
  /\ UNCHANGED <<packet, cmd, written, lock, wire_all, sent>>

\* ------------------------------------------------------------------ Handle

\* Handle strings a server mints.
Handles == {<<PathLetter>>, <<PathLetter, PathLetter>>}

\* What Handle::connection can be: nullptr, the Connection, or, the member
\* having no initializer, whatever a new Handle finds there.
NoHandle == [connection |-> "nullptr", handle |-> <<>>]

\* What the server answers to the OPEN of Connection::open or opendir: HANDLE
\* with a handle it has not minted before, a STATUS, or an ATTRS reply.
OpenReplies ==
  {Frame(SSH_FXP_HANDLE, Pack32(Zero32) \o PackStr(h)) : h \in Handles \ minted}
    \cup {StatusFrame(Pack32(Zero32), c, ServerText) : c \in {SSH_FX_OK, SSH_FX_FAILURE}}
    \cup {Frame(SSH_FXP_ATTRS, Pack32(Zero32) \o <<0>>)}

\* What the server answers to CLOSE.
CloseReplies ==
  {StatusFrame(Pack32(Zero32), c, ServerText) : c \in {SSH_FX_OK, SSH_FX_FAILURE}}
    \cup {Frame(SSH_FXP_ATTRS, Pack32(Zero32) \o <<0>>)}

\* sftp.h lines 597-608, Connection::open(FileHandle &, path, mode) and
\* Connection::opendir(DirectoryHandle &, path): handle.connection = this and
\* handle.name = path come first, then handle.handle = open(path, mode), which
\* throws when the write fails or the reply is not HANDLE.
HandleOpen ==
  /\ Running
  /\ pc[1] = "h_live"
  /\ nreq < MaxReqs
  /\ nreq' = nreq + 1
  /\ \E op \in {"open", "opendir"} :
       \/ /\ ~CanWrite
          /\ hobj' = [hobj EXCEPT !.connection = "this"]
          /\ UNCHANGED minted
       \/ /\ CanWrite
          /\ \E f \in OpenReplies :
               LET out == ApiOutcome(op, f.type, f.body) IN
               IF out.kind = "value"
               THEN /\ hobj' = [connection |-> "this", handle |-> out.value]
                    /\ minted' = minted \cup {out.value}
               ELSE /\ hobj' = [hobj EXCEPT !.connection = "this"]
                    /\ UNCHANGED minted
  /\ UNCHANGED <<pc, terminated, pbuf, connvars, myid, got, srvvars, pumpvars, apivars>>
  /\ UNCHANGED <<nothandle, close_reqs>>

\* sftp.h lines 573-578, Handle::close, called by the owner (destroy FALSE)
\* or by ~Handle (lines 569-571, destroy TRUE): if(connection) {
\* connection->close(handle); connection = nullptr; }.  Connection::close
\* sends CLOSE and throws on a failed write or a reply that is not STATUS OK,
\* and then connection is not reset.  An exception leaving ~Handle ends the
\* process.  A connection that was never set is an indeterminate pointer.
HandleCloseBody(destroy) ==
  /\ destroy \/ nreq < MaxReqs
  /\ nreq' = IF destroy THEN nreq ELSE nreq + 1
  /\ \/ /\ hobj.connection = "nullptr"
        /\ UNCHANGED <<hobj, close_reqs, terminated>>
        /\ pc' = IF destroy THEN [pc EXCEPT ![1] = "h_dead"] ELSE pc
     \/ /\ hobj.connection = "indeterminate"
        /\ terminated' = "handle"
        /\ UNCHANGED <<hobj, close_reqs, pc>>
     \/ /\ hobj.connection # "nullptr"
        /\ ~CanWrite
        /\ terminated' = IF destroy THEN "handle" ELSE terminated
        /\ UNCHANGED <<hobj, close_reqs, pc>>
     \/ /\ hobj.connection # "nullptr"
        /\ CanWrite
        /\ close_reqs' = Append(close_reqs, hobj.handle)
        /\ \E f \in CloseReplies :
             IF CloseOutcome(f.type, f.body).kind = "value"
             THEN /\ hobj' = [hobj EXCEPT !.connection = "nullptr"]
                  /\ pc' = IF destroy THEN [pc EXCEPT ![1] = "h_dead"] ELSE pc
                  /\ UNCHANGED terminated
             ELSE /\ terminated' = IF destroy THEN "handle" ELSE terminated
                  /\ UNCHANGED <<hobj, pc>>
  /\ UNCHANGED <<pbuf, connvars, myid, got, srvvars, pumpvars, apivars>>
  /\ UNCHANGED <<nothandle, minted>>

\* The owner calls close().
HandleClose ==
  /\ Running
  /\ pc[1] = "h_live"
  /\ HandleCloseBody(FALSE)

\* The object is destroyed: ~Handle calls close().
HandleDestroy ==
  /\ Running
  /\ pc[1] = "h_live"
  /\ HandleCloseBody(TRUE)

\* Thread 1 calls disconnect() on the connection, connected or not.
DiscCall ==
  /\ Running
  /\ UNCHANGED progvars
  /\ pc[1] \in {"c_idle", "c_done"}
  /\ pc[DiscT] = "off"
  /\ pc' = [pc EXCEPT ![1] = "d_call", ![DiscT] = "idle"]
  /\ UNCHANGED <<terminated, pbuf, connvars, callvars, srvvars, pumpvars, apivars>>

\* disconnect() returns to thread 1.
DiscReturn ==
  /\ Running
  /\ UNCHANGED progvars
  /\ pc[1] = "d_call"
  /\ pc[DiscT] = "done"
  /\ pc' = [pc EXCEPT ![1] = "c_idle", ![DiscT] = "off"]
  /\ api' = [NoCall EXCEPT !.op = "disconnect", !.out = Returned(<<>>)]
  /\ UNCHANGED <<terminated, pbuf, connvars, callvars, srvvars, pumpvars>>
  /\ UNCHANGED <<home, connects, input, srv_first>>

\* ------------------------------------------- Connection::connection(host)

\* The host names the callers ask for.
Hosts == 1 .. NHosts

\* conns without an entry for any host; a caller outside connection().
NoConns == [h \in {} |-> 0]
NoLookup == [host |-> 0, conn |-> 0, out |-> "none"]

\* connection line 601: std::unique_lock waits until no thread holds
\* static_lock.
StaticLockFree == static_lock = 0

\* connection line 601: a caller asks for host and takes static_lock.
RegLock(t) ==
  /\ Running
  /\ pc[t] = "r_idle"
  /\ nreq < MaxReqs
  /\ nreq' = nreq + 1
  /\ StaticLockFree
  /\ static_lock' = t
  /\ \E h \in Hosts : lookup' = [lookup EXCEPT ![t] = [NoLookup EXCEPT !.host = h]]
  /\ Goto(t, "r_find")
  /\ UNCHANGED <<terminated, pbuf, connvars, myid, got, srvvars, pumpvars, apivars>>
  /\ UNCHANGED <<notreg, conns, objects>>

\* connection line 602: it = conns.find(host).
RegFind(t) ==
  /\ Running
  /\ pc[t] = "r_find"
  /\ lookup' = [lookup EXCEPT ![t].conn =
                  IF lookup[t].host \in DOMAIN conns THEN conns[lookup[t].host] ELSE 0]
  /\ Goto(t, "r_have")
  /\ UNCHANGED <<terminated, pbuf, connvars, callvars, srvvars, pumpvars, apivars>>
  /\ UNCHANGED <<notreg, conns, objects, static_lock>>

\* connection lines 604-608: with no entry, new Connection(host) and
\* conns[host] = conn; otherwise conn = it->second.
RegCreate(t) ==
  /\ Running
  /\ pc[t] = "r_have"
  /\ IF lookup[t].conn = 0
     THEN /\ objects' = Append(objects, [host |-> lookup[t].host, rfd |-> FALSE,
                                         children |-> 0, handshake |-> FALSE,
                                         input |-> FALSE])
          /\ conns' = [h \in DOMAIN conns \cup {lookup[t].host} |->
                         IF h = lookup[t].host THEN Len(objects) + 1 ELSE conns[h]]
          /\ lookup' = [lookup EXCEPT ![t].conn = Len(objects) + 1]
     ELSE UNCHANGED <<objects, conns, lookup>>
  /\ Goto(t, "r_connect")
  /\ UNCHANGED <<terminated, pbuf, connvars, callvars, srvvars, pumpvars, apivars>>
  /\ UNCHANGED <<notreg, static_lock>>

\* connection line 611, conn->connect(), first part: return at once when
\* rfd >= 0, else fork the child and keep the pipe ends.
RegConnect(t) ==
  /\ Running
  /\ pc[t] = "r_connect"
  /\ LET c == lookup[t].conn IN
     IF objects[c].rfd
     THEN /\ Goto(t, "r_return")
          /\ UNCHANGED objects
     ELSE /\ objects' = [objects EXCEPT ![c].rfd = TRUE, ![c].children = @ + 1]
          /\ Goto(t, "r_handshake")
  /\ UNCHANGED <<terminated, pbuf, connvars, callvars, srvvars, pumpvars, apivars>>
  /\ UNCHANGED <<notreg, conns, static_lock, lookup>>

\* conn->connect(), second part: INIT is sent and recv_reply judges the next
\* frame of input, which is the frame left in input by an earlier read(rfd)
\* of this object when there is one (recv, lines 183-206; nothing clears
\* input), else the first frame the child writes. first says whether the
\* child's first frame is VERSION >= 3, more whether the same read brings a
\* further such frame. On an accepted frame the poll thread starts and
\* realpath("") is answered or fails; on an exception connect() disconnects
\* (pipe ends closed, child reaped) and throws, and the unique_lock is
\* released as connection() is left.
RegHandshake(t) ==
  /\ Running
  /\ pc[t] = "r_handshake"
  /\ LET c == lookup[t].conn IN
     \E first \in BOOLEAN, more \in BOOLEAN, realpath \in BOOLEAN :
       LET judged == IF objects[c].input THEN TRUE ELSE first
           left == IF objects[c].input THEN FALSE ELSE more
       IN
       IF judged /\ realpath
       THEN /\ objects' = [objects EXCEPT ![c].handshake = first, ![c].input = FALSE]
            /\ Goto(t, "r_return")
            /\ UNCHANGED <<static_lock, lookup>>
       ELSE /\ objects' = [objects EXCEPT ![c].rfd = FALSE, ![c].children = @ - 1,
                                         ![c].handshake = FALSE,
                                         ![c].input = IF judged THEN FALSE ELSE left]
            /\ static_lock' = 0
            /\ lookup' = [lookup EXCEPT ![t].out = "thrown"]
            /\ Goto(t, "r_idle")
  /\ UNCHANGED <<terminated, pbuf, connvars, callvars, srvvars, pumpvars, apivars>>
  /\ UNCHANGED <<notreg, conns>>

\* connection lines 612-613: return conn; the unique_lock is released.
RegReturn(t) ==
  /\ Running
  /\ pc[t] = "r_return"
  /\ static_lock' = 0
  /\ lookup' = [lookup EXCEPT ![t].out = "returned"]
  /\ Goto(t, "r_idle")
  /\ UNCHANGED <<terminated, pbuf, connvars, callvars, srvvars, pumpvars, apivars>>
  /\ UNCHANGED <<notreg, conns, objects>>

\* ------------------------------------------------ main and compare_files

\* The one remote host of the comparison host:path against a local file.
TheHost == 1

\* Where the main thread goes when an exception leaves compare_files: main's
\* catch makes the return value 2, and c's destructor (compare.cc 32-38)
\* closes the pipe's read end and joins the pump.
MainCatch ==
  /\ rc' = 2
  /\ Goto(1, "m_drain")

\* add_file line 109, SFTP::Connection::connection(host): a Connection is
\* made and put in conns, and connect() either leaves it connected, with its
\* child and its poll thread running, or disconnects it and throws.
MainConnection ==
  /\ Running
  /\ pc[1] = "m_conn"
  /\ conns' = [h \in {TheHost} |-> 1]
  /\ \/ /\ objects' = <<[host |-> TheHost, rfd |-> TRUE, children |-> 1,
                         handshake |-> TRUE, input |-> FALSE]>>
        /\ fds_open' = TRUE
        /\ pid_live' = TRUE
        /\ joinable' = TRUE
        /\ srv_alive' = TRUE
        /\ nextid' = One32
        /\ home' = <<Slash, PathLetter>>
        /\ connects' = 1
        /\ pc' = [pc EXCEPT ![1] = "m_stat", ![PollerT] = "poll"]
        /\ UNCHANGED rc
     \/ /\ objects' = <<[host |-> TheHost, rfd |-> FALSE, children |-> 0,
                         handshake |-> FALSE, input |-> FALSE]>>
        /\ MainCatch
        /\ UNCHANGED <<fds_open, pid_live, joinable, srv_alive, nextid, home, connects>>
  /\ UNCHANGED <<waiting, replies, poll_quit, cv, terminated, pbuf, callvars, pumpvars>>
  /\ UNCHANGED <<srv_pending, pipe, fsize, file_ok, eof_replies, short_replies>>
  /\ UNCHANGED <<api, input, srv_first, same, exit_status, addfile>>
  /\ UNCHANGED <<notreg, static_lock, lookup>>

\* add_file lines 112-121: conn->stat(path, attrs) finds a regular file, or
\* it throws (an SFTP error, a transport error, or EISDIR for a directory).
\* SFTP::Error with SSH_FX_NO_SUCH_FILE is caught when fileno & flags is
\* set, and newname becomes /dev/null; otherwise it is thrown on.
MainStat ==
  /\ Running
  /\ pc[1] = "m_stat"
  /\ nextid' = Inc32(nextid)
  /\ \/ /\ srv_alive /\ file_ok /\ ~addfile.missing
        /\ Goto(1, "m_open")
        /\ UNCHANGED <<rc, addfile>>
     \/ /\ srv_alive /\ addfile.missing /\ addfile.flag
        /\ addfile' = [addfile EXCEPT !.newname = "/dev/null"]
        /\ Goto(1, "m_open")
        /\ UNCHANGED rc
     \/ /\ MainCatch
        /\ UNCHANGED addfile
  /\ UNCHANGED <<waiting, replies, poll_quit, cv, joinable, fds_open, pid_live>>
  /\ UNCHANGED <<terminated, pbuf, callvars, srvvars, pumpvars, apivars>>
  /\ UNCHANGED <<notmain, same, exit_status>>

\* add_file lines 123-143: newname is never the empty string, so
\* conn->open(path, SSH_FXF_READ) is called; then pipe(p), the thread running
\* feed_file is started and newname becomes the pipe's /dev/fd name; or open
\* throws, as it does for a file that does not exist.
MainOpen ==
  /\ Running
  /\ pc[1] = "m_open"
  /\ nextid' = Inc32(nextid)
  /\ \/ /\ srv_alive /\ file_ok /\ ~addfile.missing
        /\ addfile' = [addfile EXCEPT !.opens = @ + 1, !.newname = "/dev/fd"]
        /\ pc' = [pc EXCEPT ![1] = "m_file2", ![PumpT] = "fill"]
        /\ UNCHANGED rc
     \/ /\ addfile' = [addfile EXCEPT !.opens = @ + 1]
        /\ MainCatch
  /\ UNCHANGED <<waiting, replies, poll_quit, cv, joinable, fds_open, pid_live>>
  /\ UNCHANGED <<terminated, pbuf, callvars, srvvars, pumpvars, apivars>>
  /\ UNCHANGED <<notmain, same, exit_status>>

\* add_file lines 90-103 for the local file: stat succeeds on a file, or
\* syserror throws while the pump is already running.
MainAddLocal ==
  /\ Running
  /\ pc[1] = "m_file2"
  /\ \/ /\ Goto(1, "m_diff")
        /\ UNCHANGED rc
     \/ MainCatch
  /\ UNCHANGED <<terminated, pbuf, connvars, callvars, srvvars, pumpvars, apivars>>
  /\ UNCHANGED <<notmain, same, exit_status, addfile>>

\* Where the data written to the sink ends.
SinkEnd(s) == IF s = <<>> THEN 0 ELSE s[Len(s)][1] + s[Len(s)][2]

\* The ranges written follow each other without gap or overlap from offset 0.
Contiguous(s) ==
  \A i \in 1 .. Len(s) :
    s[i][1] = (IF i = 1 THEN 0 ELSE s[i - 1][1] + s[i - 1][2])

\* What diff reports having read the pump's pipe to its end: 0 when the
\* local file is the same as the remote one and the pipe carried the whole
\* remote file, else 1.
DiffStatus(s) ==
  IF same /\ Contiguous(s) /\ SinkEnd(s) = fsize THEN 0 ELSE 1

\* run_diff lines 274-346: diff runs and rc is its exit status, that of the
\* comparison once feed_file has closed the pipe's write end, or 2 when diff
\* reports trouble.
MainRunDiff ==
  /\ Running
  /\ pc[1] = "m_diff"
  /\ \/ /\ fd_closes > 0
        /\ rc' = DiffStatus(sink)
     \/ rc' = 2
  /\ Goto(1, "m_drain")
  /\ UNCHANGED <<terminated, pbuf, connvars, callvars, srvvars, pumpvars, apivars>>
  /\ UNCHANGED <<notmain, same, exit_status, addfile>>

\* drain_fds lines 256-265: the read ends are closed.
MainDrainFds ==
  /\ Running
  /\ pc[1] = "m_drain"
  /\ reader_open' = FALSE
  /\ Goto(1, "m_join")
  /\ UNCHANGED <<terminated, pbuf, connvars, callvars, srvvars, apivars>>
  /\ UNCHANGED <<offset, ids, result, sink, fd_closes, close_sent, pump_exit>>
  /\ UNCHANGED <<notmain, mainvars>>

\* join_threads lines 267-273: every pump thread started has finished.
MainJoinThreads ==
  /\ Running
  /\ pc[1] = "m_join"
  /\ pc[PumpT] \in {"off", "done"}
  /\ Goto(1, "m_return")
  /\ UNCHANGED <<terminated, pbuf, connvars, callvars, srvvars, pumpvars, apivars>>
  /\ UNCHANGED <<notmain, mainvars>>

\* main lines 222-227: return the value of compare_files, or 2 from the
\* catch; the process exits with it.
MainReturn ==
  /\ Running
  /\ pc[1] = "m_return"
  /\ exit_status' = rc
  /\ Goto(1, "m_exited")
  /\ UNCHANGED <<terminated, pbuf, connvars, callvars, srvvars, pumpvars, apivars>>
  /\ UNCHANGED <<notmain, same, rc, addfile>>

\* ------------------------------------------------------- codec primitives

\* pack64: the eight bytes of n, most significant first; a 64-bit value is
\* kept as its four 16-bit parts.
Pack64(n) == Pack32(<<n[1], n[2]>>) \o Pack32(<<n[3], n[4]>>)

\* unpack64 at byte position pos: fails when fewer than eight bytes remain.
Unpack64Ok(s, pos) == Len(s) - pos >= 8

Unpack64(s, pos) == Unpack32(s, pos) \o Unpack32(s, pos + 4)

\* unpackstr on bytes at position pos: unpack32 of the length, which must
\* not exceed the bytes that remain, then that many bytes.
UnpackStrBytesOk(s, pos) ==
  /\ Unpack32Ok(s, pos)
  /\ FromBE32(s, pos) <= Len(s) - (pos + 4)

UnpackStrBytes(s, pos) == SubSeq(s, pos + 5, pos + 4 + FromBE32(s, pos))

\* The values handed to the codec: 32-bit and 64-bit numbers with every byte
\* at an extreme or different from its neighbours, and byte strings that are
\* empty, short, and long enough for a second length byte.
Words32 ==
  {Zero32, One32, Max32, <<0, Byte>>, <<1, 0>>, <<Byte, 0>>, <<258, 772>>}
Words64 ==
  {<<0, 0, 0, 0>>, <<0, 0, 0, 1>>, <<0, 0, 1, 0>>, <<1, 0, 0, 0>>,
   <<HalfWord - 1, HalfWord - 1, HalfWord - 1, HalfWord - 1>>,
   <<258, 772, 1286, 1800>>}
ByteStrings ==
  {<<>>, <<0>>, <<Byte - 1>>, <<0, 0, 0, 1>>, <<1, 2, 3>>,
   [i \in 1 .. LongLen |-> i % Byte]}

\* What pack32, pack64 or packstr appends for a value.
Packed(kind, val) ==
  IF kind = "u32" THEN Pack32(val)
  ELSE IF kind = "u64" THEN Pack64(val)
  ELSE PackStrBytes(val)

\* No codec call made: an empty string.
NoCodec ==
  [s |-> <<>>, pos |-> 0, kind |-> "none", val |-> <<>>, start |-> 0,
   ok |-> TRUE, out |-> <<>>, read |-> TRUE, packs |-> 0]

\* pack32(s, n), pack64(s, n) or packstr(s, str) on the string s whose
\* earlier contents have been read.
CodecPack ==
  /\ codec.read
  /\ codec.packs < MaxPacks
  /\ \E kind \in {"u32", "u64", "str"} :
       \E val \in (IF kind = "u32" THEN Words32
                   ELSE IF kind = "u64" THEN Words64 ELSE ByteStrings) :
         codec' = [codec EXCEPT !.s = @ \o Packed(kind, val),
                                !.kind = kind, !.val = val,
                                !.start = Len(codec.s),
                                !.read = FALSE, !.packs = @ + 1]
  /\ UNCHANGED <<pc, terminated, pbuf, connvars, callvars, srvvars, pumpvars, apivars>>
  /\ UNCHANGED notcodec

\* unpack32(s, pos), unpack64(s, pos) or unpackstr(s, pos) of what the last
\* pack call appended: the value returned, or the exception, and the cursor.
CodecUnpack ==
  /\ ~codec.read
  /\ LET s == codec.s
         pos == codec.pos IN
     IF codec.kind = "u32"
     THEN codec' = [codec EXCEPT !.ok = Unpack32Ok(s, pos),
                      !.out = IF Unpack32Ok(s, pos) THEN Unpack32(s, pos) ELSE <<>>,
                      !.pos = IF Unpack32Ok(s, pos) THEN pos + 4 ELSE pos,
                      !.read = TRUE]
     ELSE IF codec.kind = "u64"
     THEN codec' = [codec EXCEPT !.ok = Unpack64Ok(s, pos),
                      !.out = IF Unpack64Ok(s, pos) THEN Unpack64(s, pos) ELSE <<>>,
                      !.pos = IF Unpack64Ok(s, pos) THEN pos + 8 ELSE pos,
                      !.read = TRUE]
     ELSE codec' = [codec EXCEPT !.ok = UnpackStrBytesOk(s, pos),
                      !.out = IF UnpackStrBytesOk(s, pos)
                              THEN UnpackStrBytes(s, pos) ELSE <<>>,
                      !.pos = IF UnpackStrBytesOk(s, pos)
                              THEN pos + 4 + FromBE32(s, pos) ELSE pos,
                      !.read = TRUE]
  /\ UNCHANGED <<pc, terminated, pbuf, connvars, callvars, srvvars, pumpvars, apivars>>
  /\ UNCHANGED notcodec

\* ------------------------------------------------------------------- recv

\* The bytes the child writes to the pipe, all different.
Stream == [i \in 1 .. StreamLen |-> i]

\* A byte that was never read from the pipe.
Junk == 0

\* recv is not in use.
NoRecv ==
  [stream |-> <<>>, input |-> <<>>, input_total |-> 0, input_ptr |-> 0,
   buffer |-> <<>>, n |-> 0, asked |-> 0, st |-> "off", avail0 |-> 0]

\* sftp.h lines 312-319: input, input_total and input_ptr have no
\* initialiser and the constructor does not set them, so a new Connection
\* holds whatever the memory held.
FreshRecv ==
  {[stream |-> Stream, input |-> in, input_total |-> t, input_ptr |-> p,
    buffer |-> <<>>, n |-> 0, asked |-> 0, st |-> "idle",
    avail0 |-> IF t = p THEN 0 ELSE 1] :
     in \in [1 .. InputSize -> {Junk, 1}],
     t \in 0 .. InputSize, p \in 0 .. InputSize}

\* recv lines 185-187: available = input_total - input_ptr, capped at n.
\* Both are size_t: when input_ptr is the larger the difference wraps to a
\* value above any n.
Available ==
  IF rcv.input_total >= rcv.input_ptr
  THEN Min(rcv.input_total - rcv.input_ptr, rcv.n)
  ELSE rcv.n

\* recv line 189: the bytes memcpy takes from input + input_ptr; past the end
\* of the array they are not bytes of this Connection's input.
InputBytes(from, count) ==
  [i \in 1 .. count |->
     IF from + i <= InputSize THEN rcv.input[from + i] ELSE Junk]

\* recv(buffer, n) is called.
RecvCall(n) ==
  /\ rcv.st = "idle"
  /\ rcv.asked + n <= StreamLen + 1
  /\ rcv' = [rcv EXCEPT !.n = n, !.asked = @ + n, !.st = "loop"]
  /\ UNCHANGED <<pc, terminated, pbuf, connvars, callvars, srvvars, pumpvars, apivars>>
  /\ UNCHANGED notrecv

\* recv lines 188-194: satisfy the read from the buffer.  A copy that runs
\* past the end of input either yields what lies there or faults.
RecvCopy ==
  /\ rcv.st = "loop"
  /\ Available > 0
  /\ \/ rcv' = [rcv EXCEPT !.buffer = @ \o InputBytes(rcv.input_ptr, Available),
                           !.input_ptr = @ + Available,
                           !.n = @ - Available,
                           !.st = IF rcv.n = Available THEN "idle" ELSE "loop"]
     \/ /\ rcv.input_ptr + Available > InputSize
        /\ rcv' = [rcv EXCEPT !.st = "crashed"]
  /\ UNCHANGED <<pc, terminated, pbuf, connvars, callvars, srvvars, pumpvars, apivars>>
  /\ UNCHANGED notrecv

\* recv lines 196 and 205-206: read(rfd, input, sizeof input) returns some of
\* the bytes in the pipe, at most the buffer's size.
RecvRead ==
  /\ rcv.st = "loop"
  /\ Available = 0
  /\ rcv.stream # <<>>
  /\ \E k \in 1 .. Min(InputSize, Len(rcv.stream)) :
       rcv' = [rcv EXCEPT
                 !.input = [i \in 1 .. InputSize |->
                              IF i <= k THEN rcv.stream[i] ELSE rcv.input[i]],
                 !.stream = SubSeq(rcv.stream, k + 1, Len(rcv.stream)),
                 !.input_total = k,
                 !.input_ptr = 0]
  /\ UNCHANGED <<pc, terminated, pbuf, connvars, callvars, srvvars, pumpvars, apivars>>
  /\ UNCHANGED notrecv

\* recv lines 197-198: read returns 0, recv throws.
RecvEof ==
  /\ rcv.st = "loop"
  /\ Available = 0
  /\ rcv.stream = <<>>
  /\ rcv' = [rcv EXCEPT !.st = "threw"]
  /\ UNCHANGED <<pc, terminated, pbuf, connvars, callvars, srvvars, pumpvars, apivars>>
  /\ UNCHANGED notrecv

\* ------------------------------------------------------- initial states

\* The state connect() leaves: the handshake is done, the poll thread is
\* started, realpath("") has used ID 0, nothing is outstanding.
ConnInit ==
  /\ replies = [i \in {} |-> NoReply]
  /\ poll_quit = FALSE
  /\ cv = {}
  /\ joinable = TRUE
  /\ fds_open = TRUE
  /\ pid_live = TRUE
  /\ terminated = "no"
  /\ pbuf = NoBuffer
  /\ got = [t \in Threads |-> NoReply]
  /\ pipe = <<>>
  /\ srv_alive = TRUE
  /\ file_ok = TRUE
  /\ eof_replies = 0
  /\ short_replies = 0

\* The state of a connected Connection's home, with no API call made yet.
ApiIdle ==
  /\ home = <<Slash, PathLetter>>
  /\ api = NoCall
  /\ connects = 1
  /\ input = <<>>
  /\ srv_first = NoFrame

\* No thread is in send and nothing has been written.
WireIdle ==
  /\ packet = [t \in Threads |-> NoPacket]
  /\ cmd = [t \in Threads |-> <<>>]
  /\ written = [t \in Threads |-> 0]
  /\ lock = 0
  /\ wire = <<>>
  /\ wire_all = <<>>
  /\ sent = <<>>
  /\ received = <<>>

\* No Handle object.
HandleIdle ==
  /\ hobj = NoHandle
  /\ minted = {}
  /\ close_reqs = <<>>

\* No connection() call made: conns is empty.
RegIdle ==
  /\ static_lock = 0
  /\ conns = NoConns
  /\ objects = <<>>
  /\ lookup = [t \in Threads |-> NoLookup]

\* main has no return value yet.
NoStatus == 0 - 1

\* add_file not yet called on the remote file: newname is the name given.
NoAddFile == [newname |-> "f", opens |-> 0, missing |-> FALSE, flag |-> FALSE]

\* remdiff's main is not part of the run.
MainIdle ==
  /\ addfile = NoAddFile
  /\ same = TRUE
  /\ rc = NoStatus
  /\ exit_status = NoStatus

\* The state of what the other models leave alone.
\* The state of what only one model uses.
MoreIdle == codec = NoCodec /\ rcv = NoRecv

ProgIdle == WireIdle /\ HandleIdle /\ RegIdle /\ MainIdle /\ MoreIdle

PumpIdle ==
  /\ offset = 0
  /\ ids = <<>>
  /\ result = NoResult
  /\ sink = <<>>
  /\ reader_open = TRUE
  /\ fd_closes = 0
  /\ close_sent = 0
  /\ pump_exit = "none"

\* A connection just connected, or one whose ID counter is about to wrap
\* while caller 1's request with ID 0 is still unanswered.
Init ==
  /\ ConnInit
  /\ PumpIdle
  /\ ProgIdle
  /\ ApiIdle
  /\ fsize = 2 * chunk + TailBytes
  /\ \/ /\ nextid = One32
        /\ nreq = 0
        /\ waiting = {}
        /\ myid = [t \in Threads |-> Zero32]
        /\ srv_pending = {}
        /\ pc = [t \in Threads |->
                   IF t = PollerT THEN "poll"
                   ELSE IF t = PumpT THEN "off" ELSE "idle"]
     \/ /\ nextid = Max32
        /\ nreq = 1
        /\ waiting = {Zero32}
        /\ myid = [t \in Threads |-> Zero32]
        /\ srv_pending = {ReadRequest(Zero32, ReqOffset(1), chunk)}
        /\ pc = [t \in Threads |->
                   IF t = PollerT THEN "poll"
                   ELSE IF t = PumpT THEN "off"
                   ELSE IF t = 1 THEN "await" ELSE "idle"]

\* ------------------------------------------------------- specifications

CallerStep == \E t \in Callers :
  CallNewId(t) \/ CallSend(t) \/ CallAwait(t) \/ CallFinish(t)

PollStep == PollWait \/ PollRead \/ PollStash \/ PollNotify

DiscStep == DiscSetQuit \/ DiscNotify \/ DiscJoin \/ DiscCloseFds \/ DiscWaitpid

\* Callers, the poll thread, a disconnecting thread, and a server that
\* answers in any order, fails requests, misbehaves or dies.
Next ==
  \/ CallerStep
  \/ PollStep
  \/ PollReadFail
  \/ DiscStep
  \/ ServerReply
  \/ ServerCrash
  \/ ChildExitOnEof

Spec == Init /\ [][Next]_vars

\* Every thread of the program that can take a step eventually takes one.
\* The server is not obliged to do anything.
CallerFair == \A t \in Callers :
  WF_vars(CallNewId(t) \/ CallSend(t) \/ CallAwait(t) \/ CallFinish(t))

ThreadsFair ==
  /\ CallerFair
  /\ WF_vars(PollStep \/ PollReadFail)
  /\ WF_vars(DiscStep)

FairSpec == Spec /\ ThreadsFair

\* The server sends nothing: the requests it receives stay unanswered.  The
\* only thing the child does is exit once its stdin is closed.
ShutdownNext ==
  \/ \E t \in Callers : CallNewId(t) \/ CallSend(t) \/ CallAwait(t)
  \/ PollWait
  \/ DiscStep
  \/ ChildExitOnEof

ShutdownSpec ==
  /\ Init
  /\ [][ShutdownNext]_vars
  /\ \A t \in Callers : WF_vars(CallNewId(t) \/ CallSend(t) \/ CallAwait(t))
  /\ WF_vars(PollWait)
  /\ WF_vars(DiscStep)
  /\ WF_vars(ChildExitOnEof)

\* Nobody disconnects and the transport stays up: the server answers every
\* request it holds, in any order.
ReplyNext ==
  \/ CallerStep
  \/ PollStep
  \/ ServerReply

ReplySpec ==
  /\ Init
  /\ [][ReplyNext]_vars
  /\ CallerFair
  /\ WF_vars(PollStep)
  /\ WF_vars(ServerReply)


\* The lengths of the remote file: whole chunks, with and without a tail.
FileSizes == {k * chunk + r : k \in 0 .. MaxFileChunks, r \in {0, TailBytes}}

\* A connected Connection with an open remote file of some length and the
\* feed_file thread just started; no other thread uses the connection.
PumpInit ==
  /\ ConnInit
  /\ PumpIdle
  /\ ProgIdle
  /\ ApiIdle
  /\ fsize \in FileSizes
  /\ nextid = One32
  /\ nreq = 0
  /\ waiting = {}
  /\ myid = [t \in Threads |-> Zero32]
  /\ srv_pending = {}
  /\ pc = [t \in Threads |->
             IF t = PollerT THEN "poll"
             ELSE IF t = PumpT THEN "fill" ELSE "off"]

PumpStep ==
  \/ PumpBeginRead
  \/ PumpBeginSend
  \/ PumpTake
  \/ PumpAwait
  \/ PumpFinishRead
  \/ PumpWrite
  \/ PumpDrain
  \/ PumpDrainAwait
  \/ PumpCloseFd
  \/ PumpCloseNewId
  \/ PumpCloseSend
  \/ PumpCloseAwait
  \/ PumpCloseFinish

\* Nothing has gone wrong around the pump so far.
NoFaultYet == srv_alive /\ file_ok /\ reader_open

\* At most one of the things that can go wrong around the pump happens in a
\* run: the child dies, the remote file becomes unreadable, or diff stops
\* reading.
PumpFault ==
  \/ NoFaultYet /\ ServerCrash
  \/ NoFaultYet /\ RemoteFileFails
  \/ NoFaultYet /\ ReaderCloses

PumpNext ==
  \/ PumpStep
  \/ PollStep
  \/ PollReadFail
  \/ ServerReply
  \/ ServerReplyFailure
  \/ PumpFault

PumpSpec == PumpInit /\ [][PumpNext]_vars

\* The pump and the poll thread take the steps they can take, and a server
\* that is alive answers what it holds.
PumpFairSpec ==
  /\ PumpSpec
  /\ WF_vars(PumpStep)
  /\ WF_vars(PollStep \/ PollReadFail)
  /\ WF_vars(ServerReply \/ ServerReplyFailure)


\* The server is up and answers every request it holds, some READs with
\* fewer bytes than asked for; diff keeps reading.
ShortReadNext ==
  \/ PumpStep
  \/ PollStep
  \/ ServerReply
  \/ ServerReplyShort

\* A file that fits the window and one that does not.
ShortFileSizes == {chunk + TailBytes, inflight_limit * chunk + TailBytes}

ShortReadInit == PumpInit /\ fsize \in ShortFileSizes

ShortReadSpec ==
  /\ ShortReadInit
  /\ [][ShortReadNext]_vars
  /\ WF_vars(PumpStep)
  /\ WF_vars(PollStep)
  /\ WF_vars(ServerReply \/ ServerReplyShort)

\* A connected Connection whose home is any of the paths the server may have
\* reported; thread 1 makes API calls one after the other.
ApiInit ==
  /\ ConnInit
  /\ PumpIdle
  /\ ProgIdle
  /\ home \in Homes
  /\ api = NoCall
  /\ connects = 1
  /\ input = <<>>
  /\ srv_first = NoFrame
  /\ fsize = chunk + TailBytes
  /\ nextid = One32
  /\ nreq = 0
  /\ waiting = {}
  /\ myid = [t \in Threads |-> Zero32]
  /\ srv_pending = {}
  /\ pc = [t \in Threads |->
             IF t = PollerT THEN "poll"
             ELSE IF t = 1 THEN "api_idle" ELSE "off"]

ApiStep == ApiBegin \/ ApiSend \/ ApiAwait \/ ApiReturn

ApiNext ==
  \/ ApiStep
  \/ PollStep
  \/ ApiServerReply

ApiSpec == ApiInit /\ [][ApiNext]_vars

\* A new Connection: not connected, no child, no poll thread, ID counter 0;
\* thread 1 is about to call connect().
ConnectInit ==
  /\ PumpIdle
  /\ ProgIdle
  /\ replies = [i \in {} |-> NoReply]
  /\ poll_quit = FALSE
  /\ cv = {}
  /\ joinable = FALSE
  /\ fds_open = FALSE
  /\ pid_live = FALSE
  /\ terminated = "no"
  /\ pbuf = NoBuffer
  /\ got = [t \in Threads |-> NoReply]
  /\ pipe = <<>>
  /\ srv_alive = FALSE
  /\ file_ok = TRUE
  /\ eof_replies = 0
  /\ short_replies = 0
  /\ fsize = chunk + TailBytes
  /\ nextid = Zero32
  /\ nreq = 0
  /\ waiting = {}
  /\ myid = [t \in Threads |-> Zero32]
  /\ srv_pending = {}
  /\ home = <<>>
  /\ api = NoCall
  /\ connects = 0
  /\ input \in InitialInputs
  /\ srv_first = NoFrame
  /\ pc = [t \in Threads |-> IF t = 1 THEN "c_idle" ELSE "off"]

ConnectStep ==
  \/ ConnEnter
  \/ ConnSendInit
  \/ ConnRecvReply
  \/ ConnCheckVersion
  \/ ConnRealpathNewId
  \/ ConnRealpathSend
  \/ ConnRealpathAwait
  \/ ConnSetHome
  \/ ConnCatch
  \/ ConnRethrow

ConnectNext ==
  \/ ConnectStep
  \/ DiscStep
  \/ PollStep
  \/ PollReadBuffered
  \/ PollReadFail
  \/ ConnServerReply
  \/ ServerCrash
  \/ ChildExitOnEof

ConnectSpec == ConnectInit /\ [][ConnectNext]_vars

\* A connected Connection on which the caller threads are about to send.
WireInit ==
  /\ ConnInit
  /\ PumpIdle
  /\ ProgIdle
  /\ ApiIdle
  /\ fsize = chunk + TailBytes
  /\ nextid = One32
  /\ nreq = 0
  /\ waiting = {}
  /\ myid = [t \in Threads |-> Zero32]
  /\ srv_pending = {}
  /\ pc = [t \in Threads |-> IF t \in Callers THEN "w_idle" ELSE "off"]

WireStep(t) ==
  \/ WireNewPacket(t)
  \/ WireSetLength(t)
  \/ WireLock(t)
  \/ WireWrite(t)
  \/ WireNotify(t)

WireNext ==
  \/ \E t \in Callers : WireStep(t)
  \/ WireParse
  \/ ServerCrash

WireSpec == WireInit /\ [][WireNext]_vars

\* A connected Connection and a new FileHandle or DirectoryHandle, nothing
\* opened yet.
HandleInit ==
  /\ ConnInit
  /\ PumpIdle
  /\ WireIdle
  /\ RegIdle
  /\ MainIdle
  /\ MoreIdle
  /\ ApiIdle
  /\ hobj \in {NoHandle, [NoHandle EXCEPT !.connection = "indeterminate"]}
  /\ minted = {}
  /\ close_reqs = <<>>
  /\ fsize = chunk + TailBytes
  /\ nextid = One32
  /\ nreq = 0
  /\ waiting = {}
  /\ myid = [t \in Threads |-> Zero32]
  /\ srv_pending = {}
  /\ pc = [t \in Threads |-> IF t = 1 THEN "h_live" ELSE "off"]

HandleNext ==
  \/ HandleOpen
  \/ HandleClose
  \/ HandleDestroy
  \/ ServerCrash

HandleSpec == HandleInit /\ [][HandleNext]_vars

\* connect() and disconnect() called by thread 1 in any order on a new
\* Connection.
DisconnectNext ==
  \/ ConnectNext
  \/ DiscCall
  \/ DiscReturn

DisconnectSpec == ConnectInit /\ [][DisconnectNext]_vars

\* The program's threads before any has asked for a connection: conns is
\* empty.
RegInit ==
  /\ ConnInit
  /\ PumpIdle
  /\ ProgIdle
  /\ ApiIdle
  /\ fsize = chunk + TailBytes
  /\ nextid = One32
  /\ nreq = 0
  /\ waiting = {}
  /\ myid = [t \in Threads |-> Zero32]
  /\ srv_pending = {}
  /\ pc = [t \in Threads |-> IF t \in Callers THEN "r_idle" ELSE "off"]

RegStep(t) ==
  \/ RegLock(t)
  \/ RegFind(t)
  \/ RegCreate(t)
  \/ RegConnect(t)
  \/ RegHandshake(t)
  \/ RegReturn(t)

RegNext == \E t \in Callers : RegStep(t)

RegSpec == RegInit /\ [][RegNext]_vars

\* The lengths of the remote file in a comparison.
MainFileSizes == {0, TailBytes}

\* remdiff started on host:path and a local file: nothing connected yet.
MainInit ==
  /\ PumpIdle
  /\ WireIdle
  /\ HandleIdle
  /\ RegIdle
  /\ MoreIdle
  /\ same \in BOOLEAN
  /\ addfile \in {NoAddFile} \cup {[NoAddFile EXCEPT !.missing = TRUE, !.flag = f] : f \in BOOLEAN}
  /\ rc = NoStatus
  /\ exit_status = NoStatus
  /\ replies = [i \in {} |-> NoReply]
  /\ poll_quit = FALSE
  /\ cv = {}
  /\ joinable = FALSE
  /\ fds_open = FALSE
  /\ pid_live = FALSE
  /\ terminated = "no"
  /\ pbuf = NoBuffer
  /\ got = [t \in Threads |-> NoReply]
  /\ pipe = <<>>
  /\ srv_alive = FALSE
  /\ file_ok = TRUE
  /\ eof_replies = 0
  /\ short_replies = 0
  /\ fsize \in MainFileSizes
  /\ nextid = Zero32
  /\ nreq = 0
  /\ waiting = {}
  /\ myid = [t \in Threads |-> Zero32]
  /\ srv_pending = {}
  /\ home = <<>>
  /\ api = NoCall
  /\ connects = 0
  /\ input = <<>>
  /\ srv_first = NoFrame
  /\ pc = [t \in Threads |-> IF t = 1 THEN "m_conn" ELSE "off"]

MainStep ==
  \/ MainConnection
  \/ MainStat
  \/ MainOpen
  \/ MainAddLocal
  \/ MainRunDiff
  \/ MainDrainFds
  \/ MainJoinThreads
  \/ MainReturn

\* At most one thing goes wrong on the remote side in a run: the child
\* dies, or the remote file becomes unreadable.
MainFault ==
  \/ file_ok /\ ServerCrash
  \/ srv_alive /\ RemoteFileFails

MainNext ==
  \/ MainStep
  \/ PumpStep
  \/ PollStep
  \/ PollReadFail
  \/ ServerReply
  \/ ServerReplyFailure
  \/ MainFault

MainSpec == MainInit /\ [][MainNext]_vars

\* A string about to be packed into.
CodecInit ==
  /\ ConnInit
  /\ PumpIdle
  /\ ProgIdle
  /\ ApiIdle
  /\ fsize = chunk + TailBytes
  /\ nextid = One32
  /\ nreq = 0
  /\ waiting = {}
  /\ myid = [t \in Threads |-> Zero32]
  /\ srv_pending = {}
  /\ pc = [t \in Threads |-> "off"]

CodecNext == CodecPack \/ CodecUnpack

CodecSpec == CodecInit /\ [][CodecNext]_vars

\* The main thread, the pump and the poll thread take the steps they can
\* take, and a server that is alive answers what it holds.
MainFairSpec ==
  /\ MainSpec
  /\ WF_vars(MainStep)
  /\ WF_vars(PumpStep)
  /\ WF_vars(PollStep \/ PollReadFail)
  /\ WF_vars(ServerReply \/ ServerReplyFailure)

\* A new Connection whose child writes Stream and exits; the callers' recv
\* calls are the only operations.
RecvInit ==
  /\ ConnInit
  /\ PumpIdle
  /\ WireIdle
  /\ HandleIdle
  /\ RegIdle
  /\ MainIdle
  /\ ApiIdle
  /\ codec = NoCodec
  /\ rcv \in FreshRecv
  /\ fsize = chunk + TailBytes
  /\ nextid = One32
  /\ nreq = 0
  /\ waiting = {}
  /\ myid = [t \in Threads |-> Zero32]
  /\ srv_pending = {}
  /\ pc = [t \in Threads |-> "off"]

RecvNext ==
  \/ \E n \in 1 .. MaxRecv : RecvCall(n)
  \/ RecvCopy
  \/ RecvRead
  \/ RecvEof

RecvSpec == RecvInit /\ [][RecvNext]_vars

\* ------------------------------------------------------------------ claims

\* C4: newid never returns an ID that is, at that moment, in waiting or in
\* replies, and no two requests in flight at the same time share an ID; the
\* counter wraps from 2^32 - 1 to 0 in the runs that start with nextid at
\* its largest value.
InFlight(t) == pc[t] \in {"send", "await"}

C4_NewIdFresh ==
  /\ [](\A t, u \in Callers : (t # u /\ InFlight(t) /\ InFlight(u)) => myid[t] # myid[u])
  /\ [][nextid' # nextid =>
          \E t \in Threads :
            /\ myid'[t] \notin waiting
            /\ myid'[t] \notin DOMAIN replies
            /\ myid'[t] \in waiting'
            /\ nextid' = Inc32(myid'[t])]_vars

\* newid has wrapped and has skipped ID 0, which is still in use.
C4_Witness ==
  \E t \in Callers :
    /\ pc[t] = "send"
    /\ myid[t] = One32
    /\ Zero32 \in (waiting \cup DOMAIN replies)

\* C5: whatever order the replies arrive in, await_reply(id) returns the frame
\* whose leading request ID is id, and with it the answer to the request the
\* thread sent (the data of the offset it asked for).
C5_ReplyMatchesId ==
  \A t \in Callers :
    pc[t] = "reply" =>
      /\ Unpack32Ok(got[t].body, 0)
      /\ Unpack32(got[t].body, 0) = myid[t]
      /\ got[t].type = SSH_FXP_DATA => got[t].body[5] = ReqOffset(t)

\* A caller has collected its reply while another caller's reply, which
\* arrived too, is still stashed.
C5_Witness ==
  \E t, u \in Callers :
    /\ pc[t] = "reply"
    /\ pc[u] = "await"
    /\ myid[u] \in DOMAIN replies

\* C8: a failed frame read in the receive loop does not end the process.
C8_ReadFailureContained == terminated # "poll"

\* C9: no request ID is in waiting and in replies at once.
C9_WaitingRepliesDisjoint == waiting \cap DOMAIN replies = {}

\* One reply is stashed while another request is outstanding.
C9_Witness == waiting # {} /\ DOMAIN replies # {}


\* Thread t is parked in await_reply's cond.wait and no reply for its ID is
\* stashed.
Blocked(t) == pc[t] = "await" /\ t \in cv /\ myid[t] \notin DOMAIN replies

\* disconnect() has just been entered: it has set poll_quit and has not yet
\* notified.
DiscEntered == pc[DiscT] = "notify"

\* C1: when disconnect() is called while threads are blocked in await_reply,
\* each of them eventually returns from await_reply instead of staying
\* blocked.
C1_ShutdownWakesWaiters ==
  \A t \in Callers : (DiscEntered /\ Blocked(t)) ~> (pc[t] # "await")

\* C2: disconnect() called while a request ID is outstanding, with a server
\* that sends no further frame, eventually returns with the poll thread
\* joined, both pipe ends closed and the child reaped.
C2_DisconnectReturns ==
  (DiscEntered /\ waiting # {}) ~>
    (pc[DiscT] = "done" /\ ~joinable /\ ~fds_open /\ ~pid_live)

\* C6: with every caller's request sent and the server answering all of them
\* in any order, every await_reply returns.
C6_AllAwaitsReturn ==
  \A t \in Callers : (pc[t] = "await") ~> (pc[t] = "reply")

\* Every caller is parked in await_reply at the same time, with its request
\* at the server or its reply on the way.
C6_Witness ==
  /\ \A t \in Callers : pc[t] = "await" /\ t \in cv
  /\ Cardinality(waiting) = NCallers

\* The IDs newid can hand out within the bounds of the model.
UsedIds == {Max32} \cup {<<0, k>> : k \in 0 .. (MaxReqs + 1)}

\* C7: every ID in waiting eventually leaves it, also when the transport has
\* reached end of stream (child gone, pipe drained) before the reply came.
C7_OutstandingIdsLeave ==
  \A id \in UsedIds :
    (id \in waiting /\ ~srv_alive /\ pipe = <<>>) ~> (id \notin waiting)

\* C3: when the pump has left its loop on end of file, what it wrote to the
\* sink is the remote file from offset 0 to its end, in order, each byte
\* once, whatever the file's length and the order of the server's answers.
C3_SinkIsFile ==
  pump_exit = "eof" => (Contiguous(sink) /\ SinkEnd(sink) = fsize)

\* C10: on every path out of the pump's loop, here the one where begin_read
\* raised a transport error, the pump reaches its terminal step having closed
\* the sink once and sent one CLOSE.
C10_PumpReachesTerminalStep ==
  (pump_exit = "begin_read") ~>
    (pc[PumpT] = "done" /\ fd_closes = 1 /\ close_sent = 1)

\* The pump is at or past its close step (compare.cc line 253).
ClosePhase == {"closefd", "cnewid", "csend", "cawait", "cgot", "done"}

\* C11: once the server has answered a READ with fewer bytes than requested
\* before end of file, and goes on answering every READ, the pump reaches its
\* close step.
C11_ShortReadTerminates ==
  (short_replies > 0) ~> (pc[PumpT] \in ClosePhase)

\* The pump has written a short chunk that ends before end of file and has
\* reached its close step.
C11_Witness ==
  /\ pc[PumpT] = "closefd"
  /\ \E i \in 1 .. Len(sink) :
       sink[i][2] < chunk /\ sink[i][1] + sink[i][2] < fsize

\* C12: for a file shorter than inflight_limit chunks, with nothing going
\* wrong, the pump's output is the file and exactly one of the replies to its
\* READs, drain phase included, is a STATUS EOF.
C12_SmallFileOneEof ==
  (/\ pc[PumpT] = "done"
   /\ pump_exit = "eof"
   /\ NoFaultYet
   /\ 0 < fsize
   /\ fsize < inflight_limit * chunk)
  => (Contiguous(sink) /\ SinkEnd(sink) = fsize /\ eof_replies = 1)

\* The READ requests the server holds.
ReadsAtServer(pending) == {f \in pending : f.type = SSH_FXP_READ}

\* The IDs other than the pump's current one that await or have a reply.
OtherIds == (waiting \cup DOMAIN replies) \ {myid[PumpT]}

\* C13: after a write to the sink failed with EPIPE the pump sends no further
\* READ and writes nothing more to the sink, and when it reaches its close
\* step it has collected every read it had issued.
C13_EpipeStopsPump ==
  /\ []((pump_exit = "epipe" /\ pc[PumpT] \in ClosePhase) =>
          (/\ ids = <<>>
           /\ OtherIds = {}
           /\ pc[PumpT] = "closefd" => myid[PumpT] \notin (waiting \cup DOMAIN replies)))
  /\ [][pump_exit = "epipe" =>
          (/\ sink' = sink
           /\ ReadsAtServer(srv_pending') \subseteq ReadsAtServer(srv_pending))]_vars

\* EPIPE struck after data had been written, and the pump has reaped its
\* reads and is at its close step.
C13_Witness ==
  /\ pump_exit = "epipe"
  /\ pc[PumpT] = "closefd"
  /\ sink # <<>>
  /\ eof_replies = 0

\* The reads the pump has issued and not yet collected.
Uncollected == Len(ids) + (IF pc[PumpT] \in {"fawait", "dawait"} THEN 1 ELSE 0)

\* C14: the pump never has more than inflight_limit READs issued and not yet
\* collected, and it sends no READ after a finish_read returned empty.
C14_WindowBound ==
  /\ [](/\ Uncollected <= inflight_limit
        /\ Cardinality(ReadsAtServer(srv_pending)) <= inflight_limit)
  /\ [][pump_exit = "eof" =>
          ReadsAtServer(srv_pending') \subseteq ReadsAtServer(srv_pending)]_vars

\* The window is full: the server holds inflight_limit READs of the pump.
C14_Witness ==
  /\ Cardinality(ReadsAtServer(srv_pending)) = inflight_limit
  /\ Len(ids) = inflight_limit

\* Thread 1's last call was op and its request has been sent.
Sent(ops) == api.op \in ops /\ api.req.type # ""

\* Thread 1's last call was op and it has returned or thrown.
Ended(ops) == api.op \in ops /\ api.reply # NoReply

\* The path the path resolution policy gives for the caller's path.
Resolved(path) ==
  IF Len(path) > 0 /\ path[1] = Slash THEN path ELSE home \o <<Slash>> \o path

\* C15: the OPEN request open(path, mode) sends carries home + "/" + path
\* when path does not begin with '/', and path itself when it does.
C15_OpenSendsResolvedPath ==
  Sent({"open"}) =>
    (/\ api.req.type = SSH_FXP_OPEN
     /\ UnpackStrOk(api.req.body, 4)
     /\ UnpackStr(api.req.body, 4) = Resolved(api.arg))

\* open has sent its request for a path that does not begin with '/'.
C15_Witness ==
  /\ Sent({"open"})
  /\ Len(api.arg) = MaxPathLen
  /\ api.arg[1] # Slash
  /\ pc[1] = "api_await"

\* C16: stat and lstat send the path that open sends for the same caller's
\* path: home + "/" + path when it does not begin with '/'.
C16_StatSendsResolvedPath ==
  Sent({"stat", "lstat"}) =>
    (/\ UnpackStrOk(api.req.body, 4)
     /\ UnpackStr(api.req.body, 4) = Resolved(api.arg))

\* C17: finish_read returns the payload of a DATA reply and the empty string
\* for STATUS EOF, and a read at or past end of file, answered by the server
\* as the protocol says, returns empty without error, each time.
C17_FinishReadResult ==
  Ended({"read"}) =>
    (/\ api.reply.type = SSH_FXP_DATA =>
          api.out = Returned(<<api.reply.body[5], api.reply.body[6]>>)
     /\ IsEofFrame(api.reply) =>
          (api.out.kind = "value" /\ api.out.value[2] = 0)
     /\ (api.off >= fsize /\ api.reply.body = ServerAnswer(api.req).body) =>
          (api.out.kind = "value" /\ api.out.value[2] = 0))

\* A read past end of file, not the first call, has returned on STATUS EOF.
C17_Witness ==
  /\ Ended({"read"})
  /\ api.off > fsize
  /\ IsEofFrame(api.reply)
  /\ nreq > 1
  /\ pc[1] = "api_idle"

\* The calls of claim C18, ended on a STATUS reply (finish_read: other than
\* EOF).
StatusEnded ==
  /\ Ended({"open", "stat", "lstat", "fstat", "realpath", "readdir", "read"})
  /\ api.reply.type = SSH_FXP_STATUS
  /\ api.op = "read" => api.reply.body[5] # SSH_FX_EOF

\* The call threw SFTP::Error with the reply's status code and text.
ThrewReplyStatus ==
  /\ api.out.kind = "sftp_error"
  /\ api.out.status = api.reply.body[5]
  /\ api.out.msg = UnpackStr(api.reply.body, 5)

\* C18 as stated: a STATUS reply with any status code makes the call throw
\* SFTP::Error with that code and the server's text.
C18_AnyStatusThrowsSftpError == StatusEnded => ThrewReplyStatus

\* C18 amended: a STATUS reply with a code other than SSH_FX_OK makes the
\* call throw SFTP::Error with that code and the server's text; with
\* SSH_FX_OK the call throws std::system_error; it never returns a value.
C18_NonZeroStatusThrowsSftpError ==
  StatusEnded =>
    (/\ api.out.kind # "value"
     /\ api.reply.body[5] # SSH_FX_OK => ThrewReplyStatus
     /\ api.reply.body[5] = SSH_FX_OK => api.out.kind = "system_error")

\* Both cases have happened to stat: this call ended on STATUS SSH_FX_OK.
C18_Witness ==
  /\ StatusEnded
  /\ api.op = "stat"
  /\ api.reply.body[5] = SSH_FX_OK
  /\ api.out.kind = "system_error"

\* C19: close sends one CLOSE; STATUS with code 0 makes it return, STATUS
\* with another code makes it throw SFTP::Error with that code, any other
\* reply type makes it fail.
C19_CloseOutcome ==
  /\ Sent({"close"}) => api.req.type = SSH_FXP_CLOSE
  /\ Ended({"close"}) =>
       IF api.reply.type = SSH_FXP_STATUS
       THEN IF api.reply.body[5] = SSH_FX_OK
            THEN api.out.kind = "value"
            ELSE api.out.kind = "sftp_error" /\ api.out.status = api.reply.body[5]
       ELSE api.out.kind \in {"sftp_error", "system_error"}

\* close has failed on a reply that is not a STATUS.
C19_Witness ==
  /\ Ended({"close"})
  /\ api.reply.type = SSH_FXP_HANDLE
  /\ api.out.kind = "system_error"

\* connect() has returned normally.
ConnectSucceeded == pc[1] = "c_idle" /\ api.op = "connect" /\ api.out.kind = "value"

\* connect() has thrown.
ConnectFailed == pc[1] = "c_idle" /\ api.op = "connect" /\ api.out.kind = "system_error"

\* C20: connect() returns normally only if the first frame its child wrote
\* after INIT is VERSION with a version of at least 3; when connect() has
\* failed the connection is disconnected: rfd and wfd closed, the child
\* reaped, no poll thread running.
C20_ConnectHandshake ==
  /\ ConnectSucceeded =>
       (srv_first # NoFrame /\ HandshakeOk(srv_first.type, srv_first.body))
  /\ ConnectFailed =>
       (~fds_open /\ ~pid_live /\ ~joinable /\ pc[PollerT] \in {"off", "exited"})

\* The bytes of the packets of a sequence, each as send finalises it.
RECURSIVE Flatten(_)
Flatten(ps) ==
  IF ps = <<>> THEN <<>>
  ELSE SetLength(NewPacket(Head(ps).type) \o Head(ps).body) \o Flatten(Tail(ps))

IsPrefix(a, b) == Len(a) <= Len(b) /\ a = SubSeq(b, 1, Len(a))

\* C25: with several threads in send at once, the bytes on the transport are
\* the whole frames one after another in the order the critical sections of
\* send ran (the last one as far as it is written), and the other end
\* receives the frames in that order.
C25_FramesContiguousInOrder ==
  /\ IsPrefix(wire_all, Flatten(sent))
  /\ IsPrefix(received, sent)

\* A thread is part way through writing its frame while another waits for
\* the lock with a frame of its own.
C25_Witness ==
  \E t \in Callers, u \in Callers :
    /\ pc[t] = "w_write" /\ written[t] > 0
    /\ pc[u] = "w_lock"

\* C30: for each type byte and body, the bytes newpacket, the pack operations
\* and send's length word produce are parsed by recv_reply into that type and
\* that body, with nothing left over.
C30_FrameRoundTrip ==
  \A t \in Callers :
    pc[t] \in {"w_lock", "w_write", "w_notify"} =>
      /\ RecvReplyOk(cmd[t])
      /\ RecvReply(cmd[t]) = packet[t]
      /\ RecvReplyRest(cmd[t]) = <<>>

\* A frame whose length needs more than one byte of the length word has
\* been finalised.
C30_Witness ==
  \E t \in Callers :
    pc[t] = "w_lock" /\ Len(packet[t].body) >= Byte /\ packet[t].type = Byte - 1

\* The request type the protocol gives to opening a directory.
SSH_FXP_OPENDIR == "SSH_FXP_OPENDIR"

\* C27: opendir(path) sends a request of type OPENDIR whose body is the
\* request ID followed by the resolved path string, and returns the handle
\* the HANDLE reply carries.
C27_OpendirRequest ==
  /\ Sent({"opendir"}) =>
       (/\ api.req.type = SSH_FXP_OPENDIR
        /\ api.req.body = SubSeq(api.req.body, 1, 4) \o PackStr(Resolved(api.arg)))
  /\ (Ended({"opendir"}) /\ api.reply.type = SSH_FXP_HANDLE) =>
       api.out = Returned(UnpackStr(api.reply.body, 4))

\* C28: after finish_readdir has collected a NAME reply with n records, the
\* caller's names vector holds what it held before followed by the n records
\* (filename, longname, attributes) in the order of the reply.
C28_ReaddirAppendsNames ==
  (Ended({"readdir"}) /\ api.reply.type = SSH_FXP_NAME /\ api.out.kind = "value") =>
    api.names = api.names0 \o UnpackNames(api.reply.body, 4).names

\* How many CLOSE requests carried handle h.
Closes(h) == Cardinality({i \in 1 .. Len(close_reqs) : close_reqs[i] = h})

\* C26: a handle the server minted is sent in CLOSE once over the life of
\* the FileHandle or DirectoryHandle that holds it, close() followed by
\* destruction sending one CLOSE; no CLOSE is sent for a handle the server
\* never minted, and none a second time after a CLOSE that failed.
C26_HandleClosedOnce ==
  /\ \A i \in 1 .. Len(close_reqs) : close_reqs[i] \in minted
  /\ \A h \in minted : Closes(h) <= 1
  /\ pc[1] = "h_dead" => \A h \in minted : Closes(h) = 1

\* The connection's transport state: pipe ends, child, poll thread, what is
\* in the pipes, and the registry of requests and replies.
Transport ==
  <<fds_open, pid_live, srv_alive, joinable, poll_quit, pc[PollerT], connects,
    srv_pending, pipe, input, home, nextid, waiting, replies>>

\* C21: connect() on a connection that is connected returns at once: no
\* child is spawned, no INIT sent, no poll thread started, and home, the
\* registry and the pipes are as they were.
C21_ConnectIdempotent ==
  [][(pc[1] = "c_idle" /\ fds_open /\ pc'[1] # pc[1] /\ pc'[1] # "d_call")
       => (pc'[1] = "c_done" /\ Transport' = Transport)]_vars

\* connect() has returned at once on a connection whose handshake and
\* realpath were done by an earlier connect().
C21_Witness ==
  pc[1] = "c_done" /\ fds_open /\ joinable /\ connects = 1 /\ home # <<>>

\* A step of disconnect() on a connection that has no poll thread to join,
\* no pipe end open and no child.
DiscOnDisconnected ==
  /\ pc[DiscT] \in {"idle", "notify", "join", "closefds", "waitpid"}
  /\ pc'[DiscT] # pc[DiscT]
  /\ ~joinable /\ ~fds_open /\ ~pid_live

\* C22: disconnect() on a connection never connected or already
\* disconnected changes nothing, and when disconnect() has returned the
\* poll thread is joined, the pipe ends are closed and the child is reaped,
\* so a second disconnect() joins, closes and waits for nothing.
C22_DisconnectIdempotent ==
  /\ [](pc[DiscT] = "done" => (~joinable /\ ~fds_open /\ ~pid_live))
  /\ [][DiscOnDisconnected => Transport' = Transport]_vars

\* A second disconnect() in a row has run to its end on a connection that
\* had been connected.
C22_Witness ==
  /\ pc[1] = "d_call" /\ pc[DiscT] = "done"
  /\ api.op = "disconnect"
  /\ home # <<>>

\* C23: however the connection(host) calls of several threads interleave,
\* there is at most one Connection object and at most one child per host
\* name, every call for a host returns that host's one object, and a call
\* returns only a connection whose child has completed the handshake.
C23_OneConnectionPerHost ==
  /\ \A i \in 1 .. Len(objects), j \in 1 .. Len(objects) :
       objects[i].host = objects[j].host => i = j
  /\ \A i \in 1 .. Len(objects) : objects[i].children <= 1
  /\ \A h \in DOMAIN conns : objects[conns[h]].host = h
  /\ \A t \in Callers :
       lookup[t].out = "returned" =>
         /\ lookup[t].host \in DOMAIN conns
         /\ lookup[t].conn = conns[lookup[t].host]
         /\ pc[t] = "r_idle" => objects[lookup[t].conn].handshake

\* main has returned: the program has finished.
MainFinished == pc[1] = "m_exited"

\* C24: when the program has finished, every connection placed in conns has
\* been disconnected: its pipe ends are closed, its poll thread is joined and
\* its child has been reaped.
C24_RegistryDisconnectedAtExit ==
  (MainFinished /\ DOMAIN conns # {}) => (~pid_live /\ ~fds_open /\ ~joinable)

\* An error was reported while the comparison ran: main caught an exception
\* or diff reported trouble (rc 2), or the pump left its loop through its
\* catch.
ErrorOccurred == rc = 2 \/ pump_exit \in {"begin_read", "finish_read", "write"}

\* C29: when main has returned, the exit status is 2 if an error occurred
\* during the comparison, an error hit by the pump included, else 0 if the
\* files do not differ and 1 if they differ.
C29_ExitStatus ==
  MainFinished =>
    exit_status = (IF ErrorOccurred THEN 2 ELSE IF same THEN 0 ELSE 1)

\* C40: every ID begin_read returned to the pump is queued once and passed
\* to finish_read once, the oldest first, never twice; when the pump closes
\* the handle its queue is empty and, unless a begin_read threw, no read ID
\* awaits or holds a reply; and a pump that has finished leaves no ID in
\* waiting or replies.
C40_ReadIdsFinishedOnce ==
  /\ []((pc[PumpT] \in ClosePhase) =>
          (ids = <<>> /\ (pump_exit # "begin_read" => OtherIds = {})))
  /\ [](pc[PumpT] = "done" => waiting \cup DOMAIN replies = {})
  /\ [](\A i \in 1 .. Len(ids) :
          /\ \A j \in 1 .. Len(ids) : ids[i] = ids[j] => i = j
          /\ pc[PumpT] \in {"fawait", "fgot", "dawait"} => ids[i] # myid[PumpT])
  /\ [][ids' # ids =>
          \/ /\ pc[PumpT] = "bsend"
             /\ ids' = Append(ids, myid[PumpT])
          \/ /\ ids # <<>>
             /\ ids' = Tail(ids)
             /\ myid'[PumpT] = Head(ids)
             /\ pc'[PumpT] \in {"fawait", "dawait"}]_vars

\* The pump has finished after finish_read threw in its loop, having reaped
\* the reads still queued and closed the handle.
C40_Witness ==
  /\ pc[PumpT] = "done"
  /\ pump_exit = "finish_read"
  /\ close_sent = 1
  /\ Len(sink) > 0

\* C38: when send has failed inside a request operation, the ID the
\* operation took from newid is no longer in waiting.
C38_SendFailureReleasesId ==
  \A t \in Callers : pc[t] = "failed" => myid[t] \notin waiting

\* C39: every reply body held in replies is at least four bytes long and
\* begins with the ID it is stashed under, so a parser starting at position 4
\* starts within the body or at its end.
C39_StashedBodiesHoldId ==
  \A id \in DOMAIN replies :
    /\ Len(replies[id].body) >= 4
    /\ Unpack32(replies[id].body, 0) = id

\* Two replies are stashed at once, each under its own ID.
C39_Witness ==
  \E i \in DOMAIN replies, j \in DOMAIN replies :
    /\ i # j
    /\ replies[i].type = SSH_FXP_DATA
    /\ replies[j].type = SSH_FXP_DATA

\* C31: unpack32, unpack64 or unpackstr of what pack32, pack64 or packstr
\* appended succeeds and returns the value packed, and the cursor has
\* advanced by exactly the bytes appended: 4, 8, or 4 plus the string's
\* length.
C31_CodecRoundTrip ==
  (codec.kind # "none" /\ codec.read) =>
    /\ codec.ok
    /\ codec.out = codec.val
    /\ codec.pos = Len(codec.s)
    /\ codec.pos - codec.start =
         (IF codec.kind = "u32" THEN 4
          ELSE IF codec.kind = "u64" THEN 8 ELSE 4 + Len(codec.val))

\* A string of LongLen bytes has been unpacked at a cursor that is not 0.
C31_Witness ==
  /\ codec.kind = "str"
  /\ codec.read
  /\ Len(codec.val) = LongLen
  /\ codec.start > 0

\* C34: when stat reported the remote file missing and its new-as-empty flag
\* is set, /dev/null stands for the file, no OPEN is sent for it and no pump
\* thread is started.
C34_MissingTreatedAsEmpty ==
  addfile.newname = "/dev/null" =>
    (addfile.opens = 0 /\ pc[PumpT] = "off")

\* C35: once compare_files or the destructor is at drain_fds, it goes on to
\* return with the pipe's read end closed and the pump thread joined.
C35_CompareFilesTerminates ==
  (pc[1] = "m_drain") ~>
    (pc[1] \in {"m_return", "m_exited"} /\ ~reader_open /\ pc[PumpT] \in {"off", "done"})

\* C37: the receive worker of a connection, also one started by a connect()
\* that follows a disconnect() of the same object, keeps running: it has not
\* returned unless a disconnect() is under way.
C37_WorkerRunsAfterReconnect ==
  (joinable /\ pc[PollerT] = "exited") => pc[DiscT] # "off"

\* C33: the poll thread is not running while connect() sends INIT and reads
\* and judges the reply, and no VERSION frame ever reaches the poll thread's
\* buffer or the stashed replies.
C33_WorkerStartsAfterVersion ==
  /\ ~(pc[1] \in {"c_init", "c_recv", "c_check"} /\ pc[PollerT] \notin {"off", "exited"})
  /\ pbuf.type # SSH_FXP_VERSION
  /\ \A id \in DOMAIN replies : replies[id].type # SSH_FXP_VERSION


\* The poll thread blocked in its frame read: at line 313 with nothing in the
\* pipe.
PollBlocked == Running /\ pc[PollerT] = "read" /\ pipe = <<>>

\* C32: while the poll thread is blocked in a frame read it does not hold the
\* connection mutex: a caller can allocate an ID, send its request, and
\* collect a reply that is already stashed, without a frame arriving.
C32_PollReadsUnlocked ==
  PollBlocked =>
    \A t \in Callers :
      /\ (pc[t] = "idle" /\ nreq < MaxReqs) =>
           ENABLED (CallNewId(t) /\ pc'[t] = "send" /\ pipe' = pipe)
      /\ (pc[t] = "send" /\ CanWrite) =>
           ENABLED (CallSend(t) /\ pc'[t] = "await" /\ pipe' = pipe)
      /\ (pc[t] = "await" /\ t \notin cv /\ myid[t] \in DOMAIN replies) =>
           ENABLED (CallAwait(t) /\ pc'[t] = "reply" /\ pipe' = pipe)

\* The poll thread is blocked while one caller has a stashed reply to collect
\* and the other has allocated its ID and is about to send.
C32_Witness ==
  /\ PollBlocked
  /\ CanWrite
  /\ \E t \in Callers, u \in Callers :
       /\ pc[t] = "await" /\ t \notin cv /\ myid[t] \in DOMAIN replies
       /\ pc[u] = "send" /\ myid[u] \in waiting


\* The bytes recv has delivered are the first bytes of the stream, in order.
DeliveredInOrder ==
  /\ Len(rcv.buffer) <= StreamLen - Len(rcv.stream)
  /\ \A i \in 1 .. Len(rcv.buffer) : rcv.buffer[i] = Stream[i]

\* C36: from a newly constructed Connection on, every recv(buffer, n) that
\* returns has delivered exactly the next n bytes of the pipe's byte stream,
\* however read() splits the stream: nothing is lost, repeated or taken from
\* buffer contents that were never read from the pipe, and no copy leaves the
\* input array.
C36_RecvDeliversStream ==
  rcv.st # "off" =>
    /\ rcv.st # "crashed"
    /\ DeliveredInOrder
    /\ rcv.st = "idle" => Len(rcv.buffer) = rcv.asked

====
